---- MODULE Spec2Model ----
(***************************************************************************)
(* Model of the sopp triple store (src/db.go) on top of an ordered         *)
(* key-value store with transactions, and of the in-memory graph           *)
(* (src/rdf/graph.go) used as working graph and as reference.              *)
(*                                                                         *)
(* Strings and byte slices are sequences of byte values (0..255); a bucket *)
(* is a function from keys (byte sequences) to values (byte sequences).    *)
(***************************************************************************)
EXTENDS Integers, Sequences, FiniteSets, TLC

(***************************************************************************)
(* Bounds of the model.                                                    *)
(***************************************************************************)
\* MaxTerms is 4294967295 in src/db.go:32; the model scales the ceiling of
\* the id space down so that the sequence can reach it.
MaxTerms == 4
\* Insert and ImportGraph are offered while fewer than MaxTriples triples
\* are stored.
MaxTriples == 2
\* The key-value call (NextSequence, Put, Delete, commit) of a writable
\* transaction that fails with an I/O error is one of the first MaxFault
\* calls, or none (0).
MaxFault == 2

(***************************************************************************)
(* Byte strings.                                                           *)
(***************************************************************************)
Min(S) == CHOOSE x \in S : \A y \in S : x <= y

\* bytes.Compare: lexicographic order of byte slices.
bytesCompare(a, b) ==
    LET n == IF Len(a) < Len(b) THEN Len(a) ELSE Len(b)
        d == {i \in 1..n : a[i] # b[i]}
    IN  IF d = {}
        THEN IF Len(a) < Len(b) THEN -1 ELSE IF Len(a) > Len(b) THEN 1 ELSE 0
        ELSE IF a[Min(d)] < b[Min(d)] THEN -1 ELSE 1

\* strings.HasPrefix
HasPrefix(s, prefix) ==
    Len(s) >= Len(prefix) /\ SubSeq(s, 1, Len(prefix)) = prefix

\* b[i:] of a Go slice, with i a 0-based offset.
From(b, i) == SubSeq(b, i + 1, Len(b))

\* u32tob: big-endian 4-byte encoding of a uint32.
u32tob(v) ==
    << (v \div 16777216) % 256, (v \div 65536) % 256, (v \div 256) % 256, v % 256 >>

\* btou32: big-endian decoding of the first 4 bytes.
btou32(b) == b[1] * 16777216 + b[2] * 65536 + b[3] * 256 + b[4]

\* uint32(n) of a uint64: the value modulo 2^32.  MaxTerms is the
\* largest uint32, so that the ids are the numbers modulo MaxTerms + 1.
uint32(n) == n % (MaxTerms + 1)

\* u32tob(id - 1) with id a uint32: the subtraction wraps around at 0.
u32tobPred(id) == IF id = 0 THEN <<255, 255, 255, 255>> ELSE u32tob(id - 1)

(***************************************************************************)
(* RDF terms (src/rdf/term.go).  A term is a record; a URI has kind "URI"  *)
(* and its string in value, a Literal has value, language and datatype.    *)
(* The datatype URIs are abbreviated to two characters.                    *)
(***************************************************************************)
RDFlangString    == <<35, 76>>
XSDboolean       == <<35, 98>>
XSDbyte          == <<35, 121>>
XSDint           == <<35, 105>>
XSDshort         == <<35, 104>>
XSDlong          == <<35, 108>>
XSDinteger       == <<35, 110>>
XSDstring        == <<35, 115>>
XSDunsignedShort == <<35, 72>>
XSDunsignedInt   == <<35, 73>>
XSDunsignedLong  == <<35, 78>>
XSDunsignedByte  == <<35, 89>>
XSDfloat         == <<35, 102>>
XSDdouble        == <<35, 100>>
XSDdateTimeStamp == <<35, 116>>

\* rdf.RDFtype, a URI.
RDFtype == [kind |-> "URI", value |-> <<35, 84>>, language |-> <<>>, datatype |-> <<>>]

URI(s) == [kind |-> "URI", value |-> s, language |-> <<>>, datatype |-> <<>>]

NewLangLiteral(v, lang) ==
    [kind |-> "Literal", value |-> v, language |-> lang, datatype |-> RDFlangString]

NewTypedLiteral(v, dt) ==
    [kind |-> "Literal", value |-> v, language |-> <<>>, datatype |-> dt]

\* The characters NewURI strips: < > " { } | ^ ` \ and everything up to 0x20.
StrippedChar(ch) == ch \in {60, 62, 34, 123, 125, 124, 94, 96, 92} \/ ch <= 32

RECURSIVE StripChars(_)
StripChars(s) ==
    IF s = <<>> THEN <<>>
    ELSE IF StrippedChar(Head(s)) THEN StripChars(Tail(s))
         ELSE <<Head(s)>> \o StripChars(Tail(s))

NewURI(s) == URI(StripChars(s))

\* The base URI of the handle (DB.base), "h/".
Base == <<104, 47>>

\* The tag byte of the literals whose datatype is implied by the tag.
DatatypeTag(dt) ==
    CASE dt = XSDstring        -> 2
      [] dt = XSDboolean       -> 4
      [] dt = XSDbyte          -> 5
      [] dt = XSDint           -> 6
      [] dt = XSDshort         -> 7
      [] dt = XSDlong          -> 8
      [] dt = XSDinteger       -> 9
      [] dt = XSDunsignedShort -> 10
      [] dt = XSDunsignedInt   -> 11
      [] dt = XSDunsignedLong  -> 12
      [] dt = XSDunsignedByte  -> 13
      [] dt = XSDfloat         -> 14
      [] dt = XSDdouble        -> 15
      [] dt = XSDdateTimeStamp -> 16
      [] OTHER                 -> 255

TagDatatype(tag) ==
    CASE tag = 4  -> XSDboolean
      [] tag = 5  -> XSDbyte
      [] tag = 6  -> XSDint
      [] tag = 7  -> XSDshort
      [] tag = 8  -> XSDlong
      [] tag = 9  -> XSDinteger
      [] tag = 10 -> XSDunsignedShort
      [] tag = 11 -> XSDunsignedInt
      [] tag = 12 -> XSDunsignedLong
      [] tag = 13 -> XSDunsignedByte
      [] tag = 14 -> XSDfloat
      [] tag = 15 -> XSDdouble
      [] tag = 16 -> XSDdateTimeStamp

\* DB.encode
encode(t) ==
    IF t.kind = "URI"
    THEN IF HasPrefix(t.value, Base)
         THEN <<0>> \o From(t.value, Len(Base))
         ELSE <<1>> \o t.value
    ELSE IF t.datatype = RDFlangString
         THEN <<3, Len(t.language) % 256>> \o t.language \o t.value
         ELSE IF DatatypeTag(t.datatype) = 255
              THEN <<255, Len(t.datatype) % 256>> \o t.datatype \o t.value
              ELSE <<DatatypeTag(t.datatype)>> \o t.value

\* DB.decode; the result is [err |-> TRUE] when the bytes are no term.
decode(b) ==
    IF Len(b) = 0 THEN [err |-> TRUE]
    ELSE CASE b[1] = 0 -> [err |-> FALSE, term |-> URI(Base \o From(b, 1))]
           [] b[1] = 1 -> [err |-> FALSE, term |-> URI(From(b, 1))]
           [] b[1] = 2 -> [err |-> FALSE, term |-> NewTypedLiteral(From(b, 1), XSDstring)]
           [] b[1] = 3 ->
                IF Len(b) < 2 THEN [err |-> TRUE]
                ELSE IF Len(b) < b[2] + 2 THEN [err |-> TRUE]
                ELSE [err |-> FALSE,
                      term |-> NewLangLiteral(From(b, b[2] + 2), SubSeq(b, 3, 2 + b[2]))]
           [] b[1] \in 4..16 ->
                [err |-> FALSE, term |-> NewTypedLiteral(From(b, 1), TagDatatype(b[1]))]
           [] b[1] = 255 ->
                IF Len(b) < 2 THEN [err |-> TRUE]
                ELSE IF Len(b) < b[2] THEN [err |-> TRUE]
                ELSE IF Len(b) < b[2] + 2 THEN [err |-> TRUE, panic |-> TRUE]
                ELSE [err |-> FALSE,
                      term |-> NewTypedLiteral(From(b, b[2] + 2),
                                               NewURI(SubSeq(b, 3, 2 + b[2])).value)]
           [] OTHER -> [err |-> TRUE]

(***************************************************************************)
(* The universe of terms and triples the operations are called with.       *)
(***************************************************************************)
\* <h/a>: a URI with the base prefix; <b>: a URI without it; "x"@en.
Ua == URI(<<104, 47, 97>>)
Ub == URI(<<98>>)
Lx == NewLangLiteral(<<120>>, <<101, 110>>)

URIs == {Ua, Ub}
Terms == URIs \cup {Lx}

\* rdf.Triple
Triple(s, p, o) == [Subj |-> s, Pred |-> p, Obj |-> o]
\* The triples the operations are called with: one whose three terms are
\* the same, pairs that share the key of SPO, of OSP and of POS, a URI and
\* a literal as object, and a URI that is subject of one and object of another.
Triples ==
    {Triple(Ua, Ua, Ua), Triple(Ua, Ub, Lx), Triple(Ua, Ub, Ub),
     Triple(Ua, Ua, Lx), Triple(Ub, Ub, Lx), Triple(Ub, Ua, Ua)}

(***************************************************************************)
(* The key-value store: buckets, cursors and transactions (bolt).          *)
(***************************************************************************)
Ok          == "nil"
ErrNotFound == "not found"
ErrDBFull   == "database full: term limit reached"
ErrIO       == "i/o error"
ErrBugTermID == "bug: term ID in index, but not stored"
ErrBugRemoveTerm == "bug: removeTerm: Term does not exist"
ErrDecode   == "cannot decode RDF term"

EmptyBucket == [k \in {} |-> <<>>]

\* Bucket.Put and Bucket.Delete on the contents of one bucket.
BucketPut(bkt, k, v) == [x \in (DOMAIN bkt) \cup {k} |-> IF x = k THEN v ELSE bkt[x]]
BucketDelete(bkt, k) == [x \in (DOMAIN bkt) \ {k} |-> bkt[x]]

\* The keys of a bucket in byte order, as a cursor walks them.
RECURSIVE SortedKeys(_)
SortedKeys(K) ==
    IF K = {} THEN <<>>
    ELSE LET m == CHOOSE x \in K : \A y \in K : bytesCompare(x, y) <= 0
         IN  <<m>> \o SortedKeys(K \ {m})

\* Cursor.Seek: the position (in SortedKeys) of the first key >= seek, or
\* one past the end.
CursorSeek(keys, seek) ==
    LET ge == {i \in 1..Len(keys) : bytesCompare(keys[i], seek) >= 0}
    IN  IF ge = {} THEN Len(keys) + 1 ELSE Min(ge)

\* The five buckets setup creates, all empty, and the sequence of the
\* terms bucket.
EmptyDB ==
    [terms |-> EmptyBucket, iterms |-> EmptyBucket,
     spo |-> EmptyBucket, osp |-> EmptyBucket, pos |-> EmptyBucket,
     seq |-> 0]

\* A writable transaction works on a copy of the store; w counts the
\* key-value calls it has made, fault is the call that fails (0: none).
Begin(store, fault) == [kv |-> store, w |-> 0, fault |-> fault]

TxPut(tx, b, k, v) ==
    IF tx.w + 1 = tx.fault
    THEN [tx |-> [tx EXCEPT !.w = @ + 1], err |-> ErrIO]
    ELSE [tx |-> [tx EXCEPT !.w = @ + 1, !.kv[b] = BucketPut(@, k, v)], err |-> Ok]

TxDelete(tx, b, k) ==
    IF tx.w + 1 = tx.fault
    THEN [tx |-> [tx EXCEPT !.w = @ + 1], err |-> ErrIO]
    ELSE [tx |-> [tx EXCEPT !.w = @ + 1, !.kv[b] = BucketDelete(@, k)], err |-> Ok]

\* The next id taken from the number of keys of terms, no sequence kept.
NextSequenceFromKeyN(tx) ==
    IF tx.w + 1 = tx.fault
    THEN [tx |-> [tx EXCEPT !.w = @ + 1], n |-> 0, err |-> ErrIO]
    ELSE [tx |-> [tx EXCEPT !.w = @ + 1, !.kv.seq = Cardinality(DOMAIN tx.kv.terms) + 1],
          n |-> Cardinality(DOMAIN tx.kv.terms) + 1, err |-> Ok]

\* The sequence handing out its value before the increment: ids from 0.
NextSequenceFromZero(tx) ==
    IF tx.w + 1 = tx.fault
    THEN [tx |-> [tx EXCEPT !.w = @ + 1], n |-> 0, err |-> ErrIO]
    ELSE [tx |-> [tx EXCEPT !.w = @ + 1, !.kv.seq = @ + 1], n |-> tx.kv.seq, err |-> Ok]

\* Bucket.NextSequence of the terms bucket.
NextSequence(tx) ==
    IF tx.w + 1 = tx.fault
    THEN [tx |-> [tx EXCEPT !.w = @ + 1], n |-> 0, err |-> ErrIO]
    ELSE [tx |-> [tx EXCEPT !.w = @ + 1, !.kv.seq = @ + 1], n |-> tx.kv.seq + 1, err |-> Ok]

\* DB.Update: commit when the function returned nil and the commit itself
\* succeeds, roll back otherwise.  r is the outcome of the function.
UpdateErr(r) ==
    IF r.err # Ok THEN r.err
    ELSE IF r.tx.w + 1 = r.tx.fault THEN ErrIO ELSE Ok

\* Update keeping what the function wrote whatever it returned.
UpdateNoRollback(store, r) == r.tx.kv

Update(store, r) == IF UpdateErr(r) = Ok THEN r.tx.kv ELSE store

\* The bitmap of an index entry: CheckedAdd, CheckedRemove and the
\* serialized form, the ids in ascending order.
RECURSIVE WriteTo(_)
WriteTo(bitmap) ==
    IF bitmap = {} THEN <<>>
    ELSE <<Min(bitmap)>> \o WriteTo(bitmap \ {Min(bitmap)})

ReadFrom(bo) == {bo[i] : i \in 1..Len(bo)}

(***************************************************************************)
(* The dictionary and the three indices, inside one transaction.  Every    *)
(* operator returns the transaction as it has left it and the error.       *)
(***************************************************************************)
\* DB.getIDb
getIDb(tx, bt) ==
    IF bt \notin DOMAIN tx.kv.iterms
    THEN [id |-> 0, err |-> ErrNotFound]
    ELSE [id |-> btou32(tx.kv.iterms[bt]), err |-> Ok]

\* DB.getID
getID(tx, term) == getIDb(tx, encode(term))

\* DB.getTerm
getTerm(tx, id) ==
    IF u32tob(id) \notin DOMAIN tx.kv.terms
    THEN [err |-> ErrNotFound]
    ELSE LET d == decode(tx.kv.terms[u32tob(id)])
         IN  IF d.err THEN [err |-> ErrDecode] ELSE [err |-> Ok, term |-> d.term]

\* addTerm without the lookup in iterms: every call takes a new id.
addTermNoLookup(tx, term) ==
    LET bt == encode(term)
        s  == NextSequence(tx)
    IN  IF s.err # Ok THEN [tx |-> s.tx, id |-> 0, err |-> s.err]
        ELSE IF s.n > MaxTerms THEN [tx |-> s.tx, id |-> 0, err |-> ErrDBFull]
        ELSE LET idb == u32tob(uint32(s.n))
                 p1  == TxPut(s.tx, "terms", idb, bt)
             IN  IF p1.err # Ok THEN [tx |-> p1.tx, id |-> 0, err |-> p1.err]
                 ELSE LET p2 == TxPut(p1.tx, "iterms", bt, idb)
                      IN  [tx |-> p2.tx, id |-> uint32(s.n), err |-> p2.err]

\* addTerm letting one sequence number past MaxTerms through.
addTermCeilingOffByOne(tx, term) ==
    LET bt == encode(term)
        g  == getIDb(tx, bt)
    IN  IF g.err = Ok THEN [tx |-> tx, id |-> g.id, err |-> Ok]
        ELSE LET s == NextSequence(tx)
             IN  IF s.err # Ok THEN [tx |-> s.tx, id |-> 0, err |-> s.err]
                 ELSE IF s.n > MaxTerms + 1 THEN [tx |-> s.tx, id |-> 0, err |-> ErrDBFull]
                 ELSE LET idb == u32tob(uint32(s.n))
                          p1  == TxPut(s.tx, "terms", idb, bt)
                      IN  IF p1.err # Ok THEN [tx |-> p1.tx, id |-> 0, err |-> p1.err]
                          ELSE LET p2 == TxPut(p1.tx, "iterms", bt, idb)
                               IN  [tx |-> p2.tx, id |-> uint32(s.n), err |-> p2.err]

\* addTerm taking the next value of the sequence before the lookup.
addTermSequenceFirst(tx, term) ==
    LET bt == encode(term)
        s  == NextSequence(tx)
        g  == getIDb(s.tx, bt)
    IN  IF s.err # Ok THEN [tx |-> s.tx, id |-> 0, err |-> s.err]
        ELSE IF g.err = Ok THEN [tx |-> s.tx, id |-> g.id, err |-> Ok]
        ELSE IF s.n > MaxTerms THEN [tx |-> s.tx, id |-> 0, err |-> ErrDBFull]
        ELSE LET idb == u32tob(uint32(s.n))
                 p1  == TxPut(s.tx, "terms", idb, bt)
             IN  IF p1.err # Ok THEN [tx |-> p1.tx, id |-> 0, err |-> p1.err]
                 ELSE LET p2 == TxPut(p1.tx, "iterms", bt, idb)
                      IN  [tx |-> p2.tx, id |-> uint32(s.n), err |-> p2.err]

\* DB.addTerm
addTerm(tx, term) ==
    LET bt == encode(term)
        g  == getIDb(tx, bt)
    IN  IF g.err = Ok THEN [tx |-> tx, id |-> g.id, err |-> Ok]
        ELSE LET s == NextSequence(tx)
             IN  IF s.err # Ok THEN [tx |-> s.tx, id |-> 0, err |-> s.err]
                 ELSE IF s.n > MaxTerms THEN [tx |-> s.tx, id |-> 0, err |-> ErrDBFull]
                 ELSE LET idb == u32tob(uint32(s.n))
                          p1  == TxPut(s.tx, "terms", idb, bt)
                      IN  IF p1.err # Ok THEN [tx |-> p1.tx, id |-> 0, err |-> p1.err]
                          ELSE LET p2 == TxPut(p1.tx, "iterms", bt, idb)
                               IN  [tx |-> p2.tx, id |-> uint32(s.n), err |-> p2.err]

\* The table with the halves of the SPO key in the wrong order.
indicesKeySwapped(s, p, o) ==
    << [k1 |-> p, k2 |-> s, v |-> o, bk |-> "spo"],
       [k1 |-> o, k2 |-> s, v |-> p, bk |-> "osp"],
       [k1 |-> p, k2 |-> o, v |-> s, bk |-> "pos"] >>

\* The table without its POS row.
indicesNoPOS(s, p, o) ==
    << [k1 |-> s, k2 |-> p, v |-> o, bk |-> "spo"],
       [k1 |-> o, k2 |-> s, v |-> p, bk |-> "osp"] >>

\* The table of storeTriple and removeTriple: key halves, bitmap member
\* and bucket of the three indices, in the order SPO, OSP, POS.
indices(s, p, o) ==
    << [k1 |-> s, k2 |-> p, v |-> o, bk |-> "spo"],
       [k1 |-> o, k2 |-> s, v |-> p, bk |-> "osp"],
       [k1 |-> p, k2 |-> o, v |-> s, bk |-> "pos"] >>

CompoundKey(k1, k2) == u32tob(k1) \o u32tob(k2)

\* The body of the loop of DB.storeTriple writing a bitmap with the new
\* value only.
storeInIndexOverwrites(tx, i) ==
    LET key    == CompoundKey(i.k1, i.k2)
        bkt    == tx.kv[i.bk]
        bitmap == IF key \in DOMAIN bkt THEN ReadFrom(bkt[key]) ELSE {}
    IN  IF i.v \in bitmap
        THEN [tx |-> tx, err |-> Ok, done |-> TRUE]
        ELSE LET w == TxPut(tx, i.bk, key, WriteTo({i.v}))
             IN  [tx |-> w.tx, err |-> w.err, done |-> w.err # Ok]

\* The body of the loop of DB.storeTriple for index i; done is set when
\* the function returns from inside the loop.
storeInIndex(tx, i) ==
    LET key    == CompoundKey(i.k1, i.k2)
        bkt    == tx.kv[i.bk]
        bitmap == IF key \in DOMAIN bkt THEN ReadFrom(bkt[key]) ELSE {}
    IN  IF i.v \in bitmap
        THEN [tx |-> tx, err |-> Ok, done |-> TRUE]
        ELSE LET w == TxPut(tx, i.bk, key, WriteTo(bitmap \cup {i.v}))
             IN  [tx |-> w.tx, err |-> w.err, done |-> w.err # Ok]

\* The loop of DB.storeTriple from the n-th index on.
RECURSIVE storeLoop(_, _, _)
storeLoop(tx, idx, n) ==
    IF n > Len(idx) THEN [tx |-> tx, err |-> Ok]
    ELSE LET r == storeInIndex(tx, idx[n])
         IN  IF r.done THEN [tx |-> r.tx, err |-> r.err]
             ELSE storeLoop(r.tx, idx, n + 1)

\* DB.storeTriple
storeTriple(tx, s, p, o) == storeLoop(tx, indices(s, p, o), 1)

\* The cursor loop of notInIndex without the advance past smaller keys.
RECURSIVE notInIndexLoopNoAdvance(_, _, _)
notInIndexLoopNoAdvance(keys, pos, id) ==
    IF pos > Len(keys) THEN TRUE
    ELSE bytesCompare(SubSeq(keys[pos], 1, 4), u32tob(id)) # 0

\* notInIndex: the cursor loop from the position of Seek(u32tob(id - 1)).
RECURSIVE notInIndexLoop(_, _, _)
notInIndexLoop(keys, pos, id) ==
    IF pos > Len(keys) THEN TRUE
    ELSE LET c == bytesCompare(SubSeq(keys[pos], 1, 4), u32tob(id))
         IN  IF c = 0 THEN FALSE
             ELSE IF c = 1 THEN TRUE
             ELSE notInIndexLoop(keys, pos + 1, id)

\* notInIndex never looking into POS.
notInIndexSkipsPOS(tx, id, idx) ==
    LET keys == SortedKeys(DOMAIN tx.kv[idx])
    IN  idx = "pos" \/ notInIndexLoop(keys, CursorSeek(keys, u32tobPred(id)), id)

\* notInIndex looking into SPO whatever the index asked for.
notInIndexOnlySPO(tx, id, idx) ==
    LET keys == SortedKeys(DOMAIN tx.kv.spo)
    IN  notInIndexLoop(keys, CursorSeek(keys, u32tobPred(id)), id)

\* notInIndex never looking into OSP.
notInIndexSkipsOSP(tx, id, idx) ==
    LET keys == SortedKeys(DOMAIN tx.kv[idx])
    IN  idx = "osp" \/ notInIndexLoop(keys, CursorSeek(keys, u32tobPred(id)), id)

\* notInIndex
notInIndex(tx, id, idx) ==
    LET keys == SortedKeys(DOMAIN tx.kv[idx])
    IN  notInIndexLoop(keys, CursorSeek(keys, u32tobPred(id)), id)

\* unique without the object.
uniqueNoObject(s, p, o) == <<s>> \o (IF p # s THEN <<p>> ELSE <<>>)

\* unique
unique(s, p, o) ==
    <<s>> \o (IF p # s THEN <<p>> ELSE <<>>) \o (IF o # s /\ o # p THEN <<o>> ELSE <<>>)

\* removeTerm leaving the entry of iterms behind.
removeTermKeepIterms(tx, termID) ==
    IF u32tob(termID) \notin DOMAIN tx.kv.terms
    THEN [tx |-> tx, err |-> ErrBugRemoveTerm]
    ELSE TxDelete(tx, "terms", u32tob(termID))

\* DB.removeTerm
removeTerm(tx, termID) ==
    IF u32tob(termID) \notin DOMAIN tx.kv.terms
    THEN [tx |-> tx, err |-> ErrBugRemoveTerm]
    ELSE LET term == tx.kv.terms[u32tob(termID)]
             d1   == TxDelete(tx, "terms", u32tob(termID))
         IN  IF d1.err # Ok THEN d1 ELSE TxDelete(d1.tx, "iterms", term)

\* The loop of DB.removeOrphanedTerms removing every id without looking
\* into the indices.
RECURSIVE orphanLoopNoCheck(_, _, _)
orphanLoopNoCheck(tx, ids, n) ==
    IF n > Len(ids) THEN [tx |-> tx, err |-> Ok]
    ELSE LET r == removeTerm(tx, ids[n])
         IN  IF r.err # Ok THEN r ELSE orphanLoopNoCheck(r.tx, ids, n + 1)

\* The loop of DB.removeOrphanedTerms from the n-th id on.
RECURSIVE orphanLoop(_, _, _)
orphanLoop(tx, ids, n) ==
    IF n > Len(ids) THEN [tx |-> tx, err |-> Ok]
    ELSE IF notInIndex(tx, ids[n], "spo") /\ notInIndex(tx, ids[n], "osp")
            /\ notInIndex(tx, ids[n], "pos")
         THEN LET r == removeTerm(tx, ids[n])
              IN  IF r.err # Ok THEN r ELSE orphanLoop(r.tx, ids, n + 1)
         ELSE orphanLoop(tx, ids, n + 1)

\* DB.removeOrphanedTerms
removeOrphanedTerms(tx, s, p, o) == orphanLoop(tx, unique(s, p, o), 1)

\* The loop body writing back the bitmap it has read, the id still in it.
removeFromIndexNoRemove(tx, i) ==
    LET key == CompoundKey(i.k1, i.k2)
        bkt == tx.kv[i.bk]
    IN  IF key \notin DOMAIN bkt THEN [tx |-> tx, err |-> ErrNotFound]
        ELSE LET bitmap == ReadFrom(bkt[key])
             IN  IF i.v \notin bitmap THEN [tx |-> tx, err |-> ErrNotFound]
                 ELSE TxPut(tx, i.bk, key, WriteTo(bitmap))

\* The loop body rewriting the bitmap also when it has become empty.
removeFromIndexAlwaysPut(tx, i) ==
    LET key == CompoundKey(i.k1, i.k2)
        bkt == tx.kv[i.bk]
    IN  IF key \notin DOMAIN bkt THEN [tx |-> tx, err |-> ErrNotFound]
        ELSE LET bitmap == ReadFrom(bkt[key])
             IN  IF i.v \notin bitmap THEN [tx |-> tx, err |-> ErrNotFound]
                 ELSE TxPut(tx, i.bk, key, WriteTo(bitmap \ {i.v}))

\* The body of the loop of DB.removeTriple for index i.
removeFromIndex(tx, i) ==
    LET key == CompoundKey(i.k1, i.k2)
        bkt == tx.kv[i.bk]
    IN  IF key \notin DOMAIN bkt THEN [tx |-> tx, err |-> ErrNotFound]
        ELSE LET bitmap == ReadFrom(bkt[key])
             IN  IF i.v \notin bitmap THEN [tx |-> tx, err |-> ErrNotFound]
                 ELSE IF bitmap \ {i.v} = {}
                      THEN TxDelete(tx, i.bk, key)
                      ELSE TxPut(tx, i.bk, key, WriteTo(bitmap \ {i.v}))

\* The loop of DB.removeTriple ending after the first index.
removeLoopSPOOnly(tx, idx, n) ==
    IF n > 1 THEN [tx |-> tx, err |-> Ok] ELSE removeFromIndex(tx, idx[n])

\* The loop of DB.removeTriple from the n-th index on.
RECURSIVE removeLoop(_, _, _)
removeLoop(tx, idx, n) ==
    IF n > Len(idx) THEN [tx |-> tx, err |-> Ok]
    ELSE LET r == removeFromIndex(tx, idx[n])
         IN  IF r.err # Ok THEN r ELSE removeLoop(r.tx, idx, n + 1)

\* DB.removeTriple
removeTriple(tx, s, p, o) ==
    LET r == removeLoop(tx, indices(s, p, o), 1)
    IN  IF r.err # Ok THEN r ELSE removeOrphanedTerms(r.tx, s, p, o)

(***************************************************************************)
(* The in-memory graph (src/rdf/graph.go): nodes maps a subject to a map   *)
(* from predicate to the slice of objects.                                 *)
(***************************************************************************)
NewGraph == [s \in {} |-> <<>>]

InTerms(trms, t) == \E i \in 1..Len(trms) : trms[i] = t

\* Graph.Insert of one triple.
GraphInsert(g, t) ==
    IF t.Subj \in DOMAIN g
    THEN IF t.Pred \in DOMAIN g[t.Subj]
         THEN IF InTerms(g[t.Subj][t.Pred], t.Obj)
              THEN g
              ELSE [g EXCEPT ![t.Subj][t.Pred] = Append(@, t.Obj)]
         ELSE [g EXCEPT ![t.Subj] =
                  [p \in (DOMAIN @) \cup {t.Pred} |->
                      IF p = t.Pred THEN <<t.Obj>> ELSE @[p]]]
    ELSE [s \in (DOMAIN g) \cup {t.Subj} |->
             IF s = t.Subj THEN [p \in {t.Pred} |-> <<t.Obj>>] ELSE g[s]]

\* Graph.Delete of one triple: the object leaves its slice; the predicate
\* and the subject keep their map entries.
GraphDelete(g, t) ==
    IF t.Subj \in DOMAIN g /\ t.Pred \in DOMAIN g[t.Subj]
       /\ InTerms(g[t.Subj][t.Pred], t.Obj)
    THEN LET trms == g[t.Subj][t.Pred]
             i    == Min({j \in 1..Len(trms) : trms[j] = t.Obj})
         IN  [g EXCEPT ![t.Subj][t.Pred] =
                 SubSeq(trms, 1, i - 1) \o SubSeq(trms, i + 1, Len(trms))]
    ELSE g

\* Graph.Triples, as a set.
GraphTriples(g) ==
    UNION {UNION {{Triple(s, p, g[s][p][i]) : i \in 1..Len(g[s][p])}
                  : p \in DOMAIN g[s]} : s \in DOMAIN g}

\* Graph.Size
GraphSize(g) == Cardinality(GraphTriples(g))

\* A graph holding the triples of a set, inserted one by one.
RECURSIVE GraphOf(_)
GraphOf(S) ==
    IF S = {} THEN NewGraph
    ELSE LET t == CHOOSE x \in S : TRUE
         IN  GraphInsert(GraphOf(S \ {t}), t)

\* Graph.Describe: the triples of g with the node as subject, or as object
\* too when asObject is set, inserted into a new graph.
GraphDescribe(g, node, asObject) ==
    GraphOf({t \in GraphTriples(g) : t.Subj = node \/ (asObject /\ t.Obj = node)})

(***************************************************************************)
(* The functions the public operations run inside their transaction.       *)
(***************************************************************************)
\* The function DB.Insert passes to Update.
InsertFn(tx, tr) ==
    LET a1 == addTerm(tx, tr.Subj)
    IN  IF a1.err # Ok THEN [tx |-> a1.tx, err |-> a1.err]
        ELSE LET a2 == addTerm(a1.tx, tr.Pred)
             IN  IF a2.err # Ok THEN [tx |-> a2.tx, err |-> a2.err]
                 ELSE LET a3 == addTerm(a2.tx, tr.Obj)
                      IN  IF a3.err # Ok THEN [tx |-> a3.tx, err |-> a3.err]
                          ELSE storeTriple(a3.tx, a1.id, a2.id, a3.id)

\* Delete taking a term without id for nothing to do, as Has does.
DeleteFnUnknownIsNil(tx, tr) ==
    LET g1 == getID(tx, tr.Subj)
        g2 == getID(tx, tr.Pred)
        g3 == getID(tx, tr.Obj)
    IN  IF g1.err # Ok \/ g2.err # Ok \/ g3.err # Ok THEN [tx |-> tx, err |-> Ok]
        ELSE removeTriple(tx, g1.id, g2.id, g3.id)

\* The function DB.Delete passes to Update.
DeleteFn(tx, tr) ==
    LET g1 == getID(tx, tr.Subj)
        g2 == getID(tx, tr.Pred)
        g3 == getID(tx, tr.Obj)
    IN  IF g1.err # Ok THEN [tx |-> tx, err |-> g1.err]
        ELSE IF g2.err # Ok THEN [tx |-> tx, err |-> g2.err]
        ELSE IF g3.err # Ok THEN [tx |-> tx, err |-> g3.err]
        ELSE removeTriple(tx, g1.id, g2.id, g3.id)

\* Has handing the ErrNotFound of getID and of the missing key on to its
\* caller, as Delete does.
HasNotFoundIsError(store, tr) ==
    LET tx == Begin(store, 0)
        g1 == getID(tx, tr.Subj)
        g2 == getID(tx, tr.Pred)
        g3 == getID(tx, tr.Obj)
        sp == CompoundKey(g1.id, g2.id)
    IN  IF g1.err = ErrNotFound \/ g2.err = ErrNotFound \/ g3.err = ErrNotFound
        THEN [exists |-> FALSE, err |-> ErrNotFound]
        ELSE IF sp \notin DOMAIN store.spo
        THEN [exists |-> FALSE, err |-> ErrNotFound]
        ELSE [exists |-> g3.id \in ReadFrom(store.spo[sp]), err |-> Ok]

\* DB.Has on a read snapshot of the store.
Has(store, tr) ==
    LET tx == Begin(store, 0)
        g1 == getID(tx, tr.Subj)
        g2 == getID(tx, tr.Pred)
        g3 == getID(tx, tr.Obj)
        sp == CompoundKey(g1.id, g2.id)
    IN  IF g1.err = ErrNotFound \/ g2.err = ErrNotFound \/ g3.err = ErrNotFound
        THEN [exists |-> FALSE, err |-> Ok]
        ELSE IF sp \notin DOMAIN store.spo
        THEN [exists |-> FALSE, err |-> Ok]
        ELSE [exists |-> g3.id \in ReadFrom(store.spo[sp]), err |-> Ok]

\* DB.Stats: NumTerms, the number of keys of the terms bucket.
Stats(store) == [NumTerms |-> Cardinality(DOMAIN store.terms), err |-> Ok]

\* The inner loop of DB.forEach over the ids of the bitmap of one key, from
\* the n-th on; subj and pred are the terms of the key.
RECURSIVE bitmapLoop(_, _, _, _, _, _)
bitmapLoop(store, bo, n, subj, pred, acc) ==
    IF n > Len(bo) THEN [err |-> Ok, out |-> acc]
    ELSE LET t == getTerm(Begin(store, 0), bo[n])
         IN  IF t.err # Ok THEN [err |-> t.err, out |-> acc]
             ELSE bitmapLoop(store, bo, n + 1, subj, pred,
                             Append(acc, Triple(subj, pred, t.term)))

\* The loop of DB.forEach over the keys of SPO in key order, from the n-th
\* on; out is the sequence of triples the callback was invoked with.
RECURSIVE forEachLoop(_, _, _, _)
forEachLoop(store, keys, n, acc) ==
    IF n > Len(keys) THEN [err |-> Ok, out |-> acc]
    ELSE LET k  == keys[n]
             ts == getTerm(Begin(store, 0), btou32(SubSeq(k, 1, 4)))
             tp == getTerm(Begin(store, 0), btou32(SubSeq(k, 5, 8)))
         IN  IF ts.err # Ok THEN [err |-> ts.err, out |-> acc]
             ELSE IF tp.err # Ok THEN [err |-> tp.err, out |-> acc]
             ELSE LET r == bitmapLoop(store, store.spo[k], 1, ts.term, tp.term, acc)
                  IN  IF r.err # Ok THEN r ELSE forEachLoop(store, keys, n + 1, r.out)

\* The scan starting at the second key of SPO.
forEachSkipFirst(store) == forEachLoop(store, SortedKeys(DOMAIN store.spo), 2, <<>>)

\* DB.forEach with a callback that records its argument and returns nil.
forEach(store) == forEachLoop(store, SortedKeys(DOMAIN store.spo), 1, <<>>)

\* The error of a callback of DB.forEach.
ErrCallback == "callback error"

\* The inner loop of DB.forEach with a callback that records its argument
\* and returns ErrCallback for the triples of bad, nil for the others.
RECURSIVE bitmapLoopFn(_, _, _, _, _, _, _)
bitmapLoopFn(store, bo, n, subj, pred, acc, bad) ==
    IF n > Len(bo) THEN [err |-> Ok, out |-> acc]
    ELSE LET t == getTerm(Begin(store, 0), bo[n])
         IN  IF t.err # Ok THEN [err |-> t.err, out |-> acc]
             ELSE IF Triple(subj, pred, t.term) \in bad
             THEN [err |-> ErrCallback, out |-> Append(acc, Triple(subj, pred, t.term))]
             ELSE bitmapLoopFn(store, bo, n + 1, subj, pred,
                               Append(acc, Triple(subj, pred, t.term)), bad)

\* The loop over the keys of SPO going on after an error of the callback.
RECURSIVE forEachLoopFnGoesOn(_, _, _, _, _)
forEachLoopFnGoesOn(store, keys, n, acc, bad) ==
    IF n > Len(keys) THEN [err |-> Ok, out |-> acc]
    ELSE LET k  == keys[n]
             ts == getTerm(Begin(store, 0), btou32(SubSeq(k, 1, 4)))
             tp == getTerm(Begin(store, 0), btou32(SubSeq(k, 5, 8)))
         IN  IF ts.err # Ok THEN [err |-> ts.err, out |-> acc]
             ELSE IF tp.err # Ok THEN [err |-> tp.err, out |-> acc]
             ELSE LET r == bitmapLoopFn(store, store.spo[k], 1, ts.term, tp.term, acc, bad)
                      q == forEachLoopFnGoesOn(store, keys, n + 1, r.out, bad)
                  IN  IF r.err # Ok THEN [err |-> r.err, out |-> q.out] ELSE q

\* The loop of DB.forEach over the keys of SPO with that callback: an error
\* of the function passed to Bucket.ForEach ends the loop and is returned.
RECURSIVE forEachLoopFn(_, _, _, _, _)
forEachLoopFn(store, keys, n, acc, bad) ==
    IF n > Len(keys) THEN [err |-> Ok, out |-> acc]
    ELSE LET k  == keys[n]
             ts == getTerm(Begin(store, 0), btou32(SubSeq(k, 1, 4)))
             tp == getTerm(Begin(store, 0), btou32(SubSeq(k, 5, 8)))
         IN  IF ts.err # Ok THEN [err |-> ts.err, out |-> acc]
             ELSE IF tp.err # Ok THEN [err |-> tp.err, out |-> acc]
             ELSE LET r == bitmapLoopFn(store, store.spo[k], 1, ts.term, tp.term, acc, bad)
                  IN  IF r.err # Ok THEN r ELSE forEachLoopFn(store, keys, n + 1, r.out, bad)

\* DB.forEach(fn) with that callback; out is the sequence of the triples
\* the callback was invoked with.
forEachFn(store, bad) == forEachLoopFn(store, SortedKeys(DOMAIN store.spo), 1, <<>>, bad)

\* The triple built as if the key of OSP held the predicate and the bitmap
\* the subjects.
describeTripleRolesSwapped(bk, node, keyTerm, bitmapTerm) ==
    IF bk = "spo" THEN Triple(node, keyTerm, bitmapTerm)
    ELSE Triple(bitmapTerm, keyTerm, node)

\* The triple DB.Describe inserts for a key of bucket bk: the node, the
\* term decoded from the second half of the key and the term decoded
\* from an id of the bitmap.
describeTriple(bk, node, keyTerm, bitmapTerm) ==
    IF bk = "spo" THEN Triple(node, keyTerm, bitmapTerm)
    ELSE Triple(keyTerm, bitmapTerm, node)

\* The bitmap loop of DB.Describe from the n-th id on: every id is looked
\* up in terms and decoded, and the triple built from it is inserted into g.
RECURSIVE describeBitmap(_, _, _, _, _, _, _)
describeBitmap(store, bo, n, bk, node, keyTerm, g) ==
    IF n > Len(bo) THEN [err |-> Ok, g |-> g]
    ELSE IF u32tob(bo[n]) \notin DOMAIN store.terms
         THEN [err |-> ErrBugTermID, g |-> g]
         ELSE LET d == decode(store.terms[u32tob(bo[n])])
              IN  IF d.err THEN [err |-> ErrDecode, g |-> g]
                  ELSE describeBitmap(store, bo, n + 1, bk, node, keyTerm,
                                      GraphInsert(g, describeTriple(bk, node, keyTerm, d.term)))

\* One cursor loop of DB.Describe, over bucket bk ("spo" or "osp"), from
\* position pos of the keys on; bs is the id of the node as 4 bytes.
RECURSIVE describeLoop(_, _, _, _, _, _, _)
describeLoop(store, bk, keys, pos, bs, node, g) ==
    IF pos > Len(keys) THEN [err |-> Ok, g |-> g]
    ELSE LET k == keys[pos]
             c == bytesCompare(SubSeq(k, 1, 4), bs)
         IN  IF c = 0
             THEN IF SubSeq(k, 5, 8) \notin DOMAIN store.terms
                  THEN [err |-> ErrBugTermID, g |-> g]
                  ELSE LET d == decode(store.terms[SubSeq(k, 5, 8)])
                       IN  IF d.err THEN [err |-> ErrDecode, g |-> g]
                           ELSE LET r == describeBitmap(store, store[bk][k], 1,
                                                        bk, node, d.term, g)
                                IN  IF r.err # Ok THEN r
                                    ELSE describeLoop(store, bk, keys, pos + 1, bs, node, r.g)
             ELSE IF c = 1 THEN [err |-> Ok, g |-> g]
             ELSE describeLoop(store, bk, keys, pos + 1, bs, node, g)

\* DB.Describe on a read snapshot of the store.
Describe(store, node, asObject) ==
    LET bt == encode(node)
    IN  IF bt \notin DOMAIN store.iterms THEN [err |-> Ok, g |-> NewGraph]
        ELSE LET bs   == store.iterms[bt]
                 sid  == btou32(bs)
                 kspo == SortedKeys(DOMAIN store.spo)
                 kosp == SortedKeys(DOMAIN store.osp)
                 r1   == describeLoop(store, "spo", kspo,
                                      CursorSeek(kspo, u32tobPred(sid)), bs, node, NewGraph)
             IN  IF r1.err # Ok \/ ~asObject THEN r1
                 ELSE describeLoop(store, "osp", kosp,
                                   CursorSeek(kosp, u32tobPred(sid)), bs, node, r1.g)

\* strings.TrimPrefix
TrimPrefix(s, prefix) == IF HasPrefix(s, prefix) THEN From(s, Len(prefix)) ELSE s

\* The verb %q of fmt on a string of printable ASCII: the string between
\* double quotes, a backslash before every double quote and backslash.
RECURSIVE Quoted(_)
Quoted(v) ==
    IF v = <<>> THEN <<>>
    ELSE (IF Head(v) \in {34, 92} THEN <<92, Head(v)>> ELSE <<Head(v)>>) \o Quoted(Tail(v))

Quote(v) == <<34>> \o Quoted(v) \o <<34>>

\* What DB.Dump writes for an object: the strings written, in order.
dumpObject(t) ==
    IF t.kind = "URI"
    THEN << <<60>>, TrimPrefix(t.value, Base), <<62>> >>                  \* "<" ... ">"
    ELSE IF t.datatype = RDFlangString
         THEN << Quote(t.value) \o <<64>> \o t.language >>                \* %q@%s
         ELSE IF t.datatype = XSDstring
              THEN << Quote(t.value) >>                                   \* %q
              ELSE << Quote(t.value) \o <<94, 94, 60>>                    \* %q^^<%s>
                      \o TrimPrefix(t.datatype, Base) \o <<62>> >>

\* The loop of DB.Dump over the ids of the bitmap of one key, from the
\* n-th on; out is the sequence of the strings written so far.
RECURSIVE dumpBitmap(_, _, _, _)
dumpBitmap(store, bo, n, out) ==
    IF n > Len(bo) THEN [err |-> Ok, out |-> out]
    ELSE LET obj == getTerm(Begin(store, 0), bo[n])
         IN  IF obj.err # Ok THEN [err |-> obj.err, out |-> out]
             ELSE dumpBitmap(store, bo, n + 1,
                             out \o (IF n > 1 THEN << <<44, 32>> >> ELSE <<>>)   \* ", "
                                 \o dumpObject(obj.term))

\* The function DB.Dump passes to Bucket.ForEach of SPO, from the n-th key
\* on; curSubj is the id of the subject of the statement being written.
RECURSIVE dumpLoop(_, _, _, _, _)
dumpLoop(store, keys, n, curSubj, out) ==
    IF n > Len(keys) THEN [err |-> Ok, out |-> out]
    ELSE LET k    == keys[n]
             sID  == btou32(SubSeq(k, 1, 4))
             subj == getTerm(Begin(store, 0), sID)
             pred == getTerm(Begin(store, 0), btou32(SubSeq(k, 5, 8)))
             o1   == IF sID # curSubj
                     THEN out \o << <<32, 46, 10>> >>                     \* " .\n"
                     ELSE out \o << <<32, 59, 10, 9>> >>                  \* " ;\n\t"
             o2   == IF sID # curSubj
                     THEN o1 \o << <<60>>, TrimPrefix(subj.term.value, Base), <<62, 32>> >>
                     ELSE o1
             o3   == IF pred.term = RDFtype
                     THEN o2 \o << <<97, 32>> >>                          \* "a "
                     ELSE o2 \o << <<60>>, TrimPrefix(pred.term.value, Base), <<62, 32>> >>
         IN  IF sID # curSubj /\ subj.err # Ok THEN [err |-> subj.err, out |-> o1]
             ELSE IF pred.err # Ok THEN [err |-> pred.err, out |-> o2]
             ELSE LET r == dumpBitmap(store, store.spo[k], 1, o3)
                  IN  IF r.err # Ok THEN r
                      ELSE dumpLoop(store, keys, n + 1, sID, r.out)

\* DB.Dump with curSubj beginning at the first id instead of zero.
DumpCurSubjOne(store) ==
    LET r == dumpLoop(store, SortedKeys(DOMAIN store.spo), 1, 1,
                      << <<64, 98, 97, 115, 101, 32, 60>>, Base, <<62>> >>)
    IN  IF r.err # Ok THEN r
        ELSE [err |-> Ok, out |-> r.out \o << <<32, 46, 10>> >>]

\* DB.Dump on a read snapshot of the store; out is what has reached the
\* writer when Dump returns.
Dump(store) ==
    LET r == dumpLoop(store, SortedKeys(DOMAIN store.spo), 1, 0,
                      << <<64, 98, 97, 115, 101, 32, 60>>, Base, <<62>> >>)   \* "@base <" base ">"
    IN  IF r.err # Ok THEN r
        ELSE [err |-> Ok, out |-> r.out \o << <<32, 46, 10>> >>]

\* The loops of the function DB.ImportGraph passes to Update.  Go ranges
\* over the maps of the graph in an order of its choosing: so is the order
\* of the subjects, po[subj] the order of the predicates of subj.
RECURSIVE importObjs(_, _, _, _, _)
importObjs(tx, sID, pID, objs, n) ==
    IF n > Len(objs) THEN [tx |-> tx, err |-> Ok]
    ELSE LET a == addTerm(tx, objs[n])
         IN  IF a.err # Ok THEN [tx |-> a.tx, err |-> a.err]
             ELSE LET st == storeTriple(a.tx, sID, pID, a.id)
                  IN  IF st.err # Ok THEN st
                      ELSE importObjs(st.tx, sID, pID, objs, n + 1)

RECURSIVE importPreds(_, _, _, _, _)
importPreds(tx, props, sID, preds, n) ==
    IF n > Len(preds) THEN [tx |-> tx, err |-> Ok]
    ELSE LET a == addTerm(tx, preds[n])
         IN  IF a.err # Ok THEN [tx |-> a.tx, err |-> a.err]
             ELSE LET r == importObjs(a.tx, sID, a.id, props[preds[n]], 1)
                  IN  IF r.err # Ok THEN r
                      ELSE importPreds(r.tx, props, sID, preds, n + 1)

RECURSIVE importSubjs(_, _, _, _, _)
importSubjs(tx, g, so, po, n) ==
    IF n > Len(so) THEN [tx |-> tx, err |-> Ok]
    ELSE LET a == addTerm(tx, so[n])
         IN  IF a.err # Ok THEN [tx |-> a.tx, err |-> a.err]
             ELSE LET r == importPreds(a.tx, g[so[n]], a.id, po[so[n]], 1)
                  IN  IF r.err # Ok THEN r
                      ELSE importSubjs(r.tx, g, so, po, n + 1)

ImportGraphFn(tx, g, so, po) == importSubjs(tx, g, so, po, 1)

\* The orders in which a range statement may visit the keys of a map.
Orders(S) ==
    {f \in [1..Cardinality(S) -> S] : \A i, j \in 1..Cardinality(S) : f[i] = f[j] => i = j}

(***************************************************************************)
(* The state machine: one store handle and its callers.                    *)
(***************************************************************************)
VARIABLES
    db,      \* the committed contents of the five buckets and the sequence
    stored,  \* the triples inserted and not deleted since, by the operations that returned nil
    last,    \* the last operation called, its arguments and what it returned
    rd,      \* the read transaction (View) in flight and how far its callback has come
    wr,      \* per writer, the writable transaction (Update) it has open
    serial   \* the store the calls of the writers give when run one at a time

\* The transactions in flight; the calls of Spec run theirs in one step.
cvars == <<rd, wr, serial>>

vars == <<db, stored, last, rd, wr, serial>>

Writers == {1, 2}

Idle == [op |-> "idle"]

\* The triples the working graphs passed to ImportGraph are built from.
ImportTriples == {Triple(Ua, Ub, Lx), Triple(Ub, Ua, Ua)}

\* The working graphs: two Graph.Insert, then possibly one Graph.Delete.
WorkingGraphs ==
    LET G2 == {<<t, u>> : t \in ImportTriples, u \in ImportTriples}
    IN  {GraphInsert(GraphInsert(NewGraph, tu[1]), tu[2]) : tu \in G2}
        \cup {GraphDelete(GraphInsert(GraphInsert(NewGraph, tu[1]), tu[2]), tu[1]) : tu \in G2}

Faults == 0..MaxFault

\* Open on a new file: setup has created the buckets.
Init ==
    /\ db = EmptyDB
    /\ stored = {}
    /\ last = [op |-> "Open", err |-> Ok]
    /\ rd = Idle
    /\ wr = [w \in Writers |-> Idle]
    /\ serial = EmptyDB

\* DB.Insert(tr); r is what the function passed to Update has returned.
Insert(tr, fault) ==
    /\ tr \in stored \/ Cardinality(stored) < MaxTriples
    /\ \E r \in {InsertFn(Begin(db, fault), tr)} :
          /\ db' = Update(db, r)
          /\ stored' = IF UpdateErr(r) = Ok THEN stored \cup {tr} ELSE stored
          /\ last' = [op |-> "Insert", tr |-> tr, err |-> UpdateErr(r),
                      wrote |-> r.tx.kv # db]
          /\ UNCHANGED cvars

\* DB.Delete(tr)
Delete(tr, fault) ==
    \E r \in {DeleteFn(Begin(db, fault), tr)} :
       /\ db' = Update(db, r)
       /\ stored' = IF UpdateErr(r) = Ok THEN stored \ {tr} ELSE stored
       /\ last' = [op |-> "Delete", tr |-> tr, err |-> UpdateErr(r),
                   wrote |-> r.tx.kv # db]
       /\ UNCHANGED cvars

\* DB.ImportGraph(g); so and po are the orders in which the range
\* statements visit the subjects and each subject's predicates.
ImportGraph(g, fault) ==
    /\ Cardinality(stored \cup GraphTriples(g)) <= MaxTriples
    /\ \E so \in Orders(DOMAIN g) :
          \E po \in [DOMAIN g -> UNION {Orders(DOMAIN g[s]) : s \in DOMAIN g}] :
             /\ \A s \in DOMAIN g : po[s] \in Orders(DOMAIN g[s])
             /\ \E r \in {ImportGraphFn(Begin(db, fault), g, so, po)} :
                   /\ db' = Update(db, r)
                   /\ stored' = IF UpdateErr(r) = Ok THEN stored \cup GraphTriples(g)
                                                    ELSE stored
                   /\ last' = [op |-> "ImportGraph", g |-> g, err |-> UpdateErr(r),
                               wrote |-> r.tx.kv # db]
                   /\ UNCHANGED cvars

\* Has resolving the subject with addTerm inside Update.
HasOpAddingTerm(tr) ==
    /\ last' = [op |-> "Has", tr |-> tr, err |-> Has(db, tr).err,
                exists |-> Has(db, tr).exists]
    /\ db' = Update(db, addTerm(Begin(db, 0), tr.Subj))
    /\ UNCHANGED <<stored, cvars>>

\* DB.Has(tr)
HasOp(tr) ==
    /\ last' = [op |-> "Has", tr |-> tr, err |-> Has(db, tr).err,
                exists |-> Has(db, tr).exists]
    /\ UNCHANGED <<db, stored, cvars>>

\* DB.Describe(node, asObject)
DescribeOp(node, asObject) ==
    /\ last' = [op |-> "Describe", node |-> node, asObject |-> asObject,
                err |-> Describe(db, node, asObject).err,
                g |-> GraphTriples(Describe(db, node, asObject).g)]
    /\ UNCHANGED <<db, stored, cvars>>

\* DB.forEach(fn)
ForEachOp ==
    /\ last' = [op |-> "forEach", err |-> forEach(db).err, out |-> forEach(db).out]
    /\ UNCHANGED <<db, stored, cvars>>

\* DB.forEach(fn) with a callback that returns an error for the triple tr.
ForEachFnOp(tr) ==
    /\ last' = [op |-> "forEachFn", tr |-> tr, err |-> forEachFn(db, {tr}).err,
                out |-> forEachFn(db, {tr}).out]
    /\ UNCHANGED <<db, stored, cvars>>

\* DB.Dump(to)
DumpOp ==
    /\ last' = [op |-> "Dump", err |-> Dump(db).err, out |-> Dump(db).out]
    /\ UNCHANGED <<db, stored, cvars>>

\* setup with CreateBucket in place of CreateBucketIfNotExists.
setupCreatesBuckets(file) == EmptyDB

\* DB.setup: a bucket the file lacks is created empty; a bucket of the
\* file is kept with its keys and, for terms, its sequence.
setup(file) ==
    [f \in DOMAIN EmptyDB |-> IF f \in DOMAIN file THEN file[f] ELSE EmptyDB[f]]

\* Open(path, base) on the file a Close has left: bolt.Open gives the
\* committed content of the file.
Open(file) == setup(file)

\* DB.Close followed by Open of the same file with the same base.  seq is
\* the sequence of the store that was closed.
ReopenOp ==
    /\ db' = Open(db)
    /\ last' = [op |-> "Reopen", err |-> Ok, seq |-> db.seq]
    /\ UNCHANGED <<stored, cvars>>

\* DB.Stats()
StatsOp ==
    /\ last' = [op |-> "Stats", err |-> Stats(db).err, NumTerms |-> Stats(db).NumTerms]
    /\ UNCHANGED <<db, stored, cvars>>

Next ==
    \/ \E tr \in Triples, fault \in Faults : Insert(tr, fault)
    \/ \E tr \in Triples, fault \in Faults : Delete(tr, fault)
    \/ \E g \in WorkingGraphs, fault \in Faults : ImportGraph(g, fault)
    \/ \E tr \in Triples : HasOp(tr)
    \/ \E node \in URIs, asObject \in BOOLEAN : DescribeOp(node, asObject)
    \/ ForEachOp
    \/ DumpOp
    \/ StatsOp
    \/ ReopenOp
    \/ \E tr \in Triples : ForEachFnOp(tr)

Spec == Init /\ [][Next]_vars

\* Insert, Delete and the reads only.
NextSingle ==
    \/ \E tr \in Triples, fault \in Faults : Insert(tr, fault)
    \/ \E tr \in Triples, fault \in Faults : Delete(tr, fault)
    \/ \E tr \in Triples : HasOp(tr)
    \/ \E node \in URIs, asObject \in BOOLEAN : DescribeOp(node, asObject)
    \/ ForEachOp
    \/ DumpOp
    \/ StatsOp

SpecSingle == Init /\ [][NextSingle]_vars

(***************************************************************************)
(* State functions used by the properties.                                 *)
(***************************************************************************)
IndexBuckets == {"spo", "osp", "pos"}

\* The ids in the keys and in the bitmaps of the three indices.
IdsInIndices(store) ==
    UNION {UNION {{btou32(SubSeq(k, 1, 4)), btou32(SubSeq(k, 5, 8))} \cup ReadFrom(store[b][k])
                  : k \in DOMAIN store[b]} : b \in IndexBuckets}

\* The bitmap of bucket b under the key of the ids k1 and k2; empty when
\* there is no such key.
BitmapAt(store, b, k1, k2) ==
    IF CompoundKey(k1, k2) \in DOMAIN store[b]
    THEN ReadFrom(store[b][CompoundKey(k1, k2)]) ELSE {}

\* The terms of a set of triples.
TermsOf(S) == UNION {{t.Subj, t.Pred, t.Obj} : t \in S}

\* The elements of a sequence.
Range(q) == {q[i] : i \in 1..Len(q)}

(***************************************************************************)
(* Properties.                                                             *)
(***************************************************************************)
\* C1: once Insert(T) has returned nil, a Has(T) that follows immediately
\* returns (true, nil).
HasAfterInsert ==
    (last.op = "Insert" /\ last.err = Ok)
        => Has(db, last.tr) = [exists |-> TRUE, err |-> Ok]

\* An Insert of the triple whose three terms are the same has returned nil
\* while another triple was stored, and Has reports the triple.
HasAfterInsertWitness ==
    /\ last.op = "Insert" /\ last.err = Ok
    /\ last.tr = Triple(Ua, Ua, Ua)
    /\ stored # {last.tr}
    /\ Has(db, last.tr).exists

\* C2: once Delete(T) has returned nil (T had been inserted), Has(T)
\* returns (false, nil) and a second Delete(T) returns ErrNotFound.
GoneAfterDelete ==
    (last.op = "Delete" /\ last.err = Ok)
        => /\ Has(db, last.tr) = [exists |-> FALSE, err |-> Ok]
           /\ \A fault \in Faults :
                 UpdateErr(DeleteFn(Begin(db, fault), last.tr)) = ErrNotFound

\* A Delete has returned nil and left terms of its triple in the
\* dictionary, used by another triple.
GoneAfterDeleteWitness ==
    /\ last.op = "Delete" /\ last.err = Ok
    /\ stored # {}
    /\ getID(Begin(db, 0), last.tr.Subj).err = Ok
    /\ ~Has(db, last.tr).exists

\* C3: forEach invokes its callback exactly once for every triple inserted
\* and not deleted since, and for no other triple.
ForEachRoundTrip ==
    /\ forEach(db).err = Ok
    /\ Range(forEach(db).out) = stored
    /\ Len(forEach(db).out) = Cardinality(stored)
    /\ last.op = "forEach" => last.err = Ok /\ Range(last.out) = stored
                              /\ Len(last.out) = Cardinality(stored)

\* forEach has returned two triples after some term had been removed from
\* the dictionary by a Delete.
ForEachRoundTripWitness ==
    /\ last.op = "forEach" /\ Len(last.out) = 2
    /\ db.seq > Cardinality(DOMAIN db.terms)

\* C4: Describe(n, false) is the set of the stored triples with subject n,
\* Describe(n, true) adds those with object n, as Graph.Describe gives on
\* the reference graph; a node without id gives the empty graph and nil.
DescribeParity ==
    \A n \in URIs, asObject \in BOOLEAN :
        LET r == Describe(db, n, asObject)
        IN  /\ r.err = Ok
            /\ GraphTriples(r.g) = GraphTriples(GraphDescribe(GraphOf(stored), n, asObject))
            /\ GraphTriples(r.g) = {t \in stored : t.Subj = n \/ (asObject /\ t.Obj = n)}
            /\ encode(n) \notin DOMAIN db.iterms => r.g = NewGraph
            /\ (last.op = "Describe" /\ last.node = n /\ last.asObject = asObject)
                  => last.err = Ok /\ last.g = GraphTriples(r.g)

\* Describe(n, true) has returned a triple with n as subject and another
\* one with n as object only.
DescribeParityWitness ==
    /\ last.op = "Describe" /\ last.asObject
    /\ \E t, u \in last.g : t.Subj = last.node /\ u.Obj = last.node /\ u.Subj # last.node

\* C5: the three indices agree: o is in SPO[s,p] iff p is in OSP[o,s] iff
\* s is in POS[p,o].
IndicesAgree ==
    \A s, p, o \in IdsInIndices(db) :
        /\ (o \in BitmapAt(db, "spo", s, p)) <=> (p \in BitmapAt(db, "osp", o, s))
        /\ (p \in BitmapAt(db, "osp", o, s)) <=> (s \in BitmapAt(db, "pos", p, o))

\* An Insert has made a second triple stored, after a Delete had removed
\* a term; the two triples share the key of SPO.
IndicesAgreeWitness ==
    /\ Cardinality(stored) = 2
    /\ last.op = "Insert" /\ last.err = Ok
    /\ db.seq > Cardinality(DOMAIN db.terms)
    /\ \E s, p \in IdsInIndices(db) : Cardinality(BitmapAt(db, "spo", s, p)) = 2

\* C6: every id of an index key or bitmap has its entry in terms and the
\* inverse entry in iterms, and terms and iterms are mutual inverses.
DictionaryCoversIndices ==
    /\ \A id \in IdsInIndices(db) :
          /\ u32tob(id) \in DOMAIN db.terms
          /\ db.terms[u32tob(id)] \in DOMAIN db.iterms
          /\ db.iterms[db.terms[u32tob(id)]] = u32tob(id)
    /\ \A i \in DOMAIN db.terms :
          db.terms[i] \in DOMAIN db.iterms /\ db.iterms[db.terms[i]] = i
    /\ \A b \in DOMAIN db.iterms :
          db.iterms[b] \in DOMAIN db.terms /\ db.terms[db.iterms[b]] = b

\* A Delete that removed a term has left a triple whose ids are all in the
\* dictionary.
DictionaryCoversIndicesWitness ==
    /\ last.op = "Delete" /\ last.err = Ok
    /\ IdsInIndices(db) # {}
    /\ \E t \in TermsOf({last.tr}) : encode(t) \notin DOMAIN db.iterms

\* C7: after every Insert, Delete and ImportGraph, committed or rolled
\* back, every id with an entry in terms occurs in a key or a bitmap of
\* the three indices.
NoOrphanTerms ==
    \A i \in DOMAIN db.terms : btou32(i) \in IdsInIndices(db)

\* C8: no key of SPO, OSP or POS maps to an empty bitmap.
NoEmptyBitmaps ==
    \A b \in IndexBuckets : \A k \in DOMAIN db[b] : ReadFrom(db[b][k]) # {}

\* A Delete has removed the SPO key of its triple, whose subject and
\* predicate are still in the dictionary.
NoEmptyBitmapsWitness ==
    /\ last.op = "Delete" /\ last.err = Ok
    /\ getID(Begin(db, 0), last.tr.Subj).err = Ok
    /\ getID(Begin(db, 0), last.tr.Pred).err = Ok
    /\ CompoundKey(getID(Begin(db, 0), last.tr.Subj).id,
                   getID(Begin(db, 0), last.tr.Pred).id) \notin DOMAIN db.spo

\* C9: after Inserts and Deletes, Stats().NumTerms is the number of
\* distinct terms of the stored triples, 0 when every triple is deleted.
NumTermsIsLiveTerms ==
    /\ Stats(db) = [NumTerms |-> Cardinality(TermsOf(stored)), err |-> Ok]
    /\ last.op = "Stats" => last.err = Ok /\ last.NumTerms = Cardinality(TermsOf(stored))

\* Stats has returned 0 terms after every triple inserted had been deleted.
NumTermsIsLiveTermsWitness ==
    /\ last.op = "Stats" /\ last.NumTerms = 0
    /\ stored = {} /\ db.seq > 0

\* C10: an Insert or a Delete that returns an error leaves the five
\* buckets and the sequence as they were before the call.
WritesAllOrNothing ==
    [][(last'.op \in {"Insert", "Delete"} /\ last'.err # Ok) => db' = db]_vars

\* An Insert has returned ErrDBFull after its transaction had written.
WritesAllOrNothingWitness ==
    /\ last.op = "Insert" /\ last.err = ErrDBFull /\ last.wrote

\* C11: Delete(T) of a triple that is not stored returns ErrNotFound, when
\* a term of T has no id and when the three ids exist but the triple is in
\* no index, and its transaction has written nothing: the store, with the
\* bitmaps of the triples that share a key with T, is as before.
DeleteNotFoundFrame ==
    /\ \A tr \in Triples \ stored, fault \in Faults :
          LET r == DeleteFn(Begin(db, fault), tr)
          IN  UpdateErr(r) = ErrNotFound /\ r.tx.kv = db /\ Update(db, r) = db
    /\ (last.op = "Delete" /\ last.err = ErrNotFound)
          => ~last.wrote /\ last.tr \notin stored

\* A Delete has returned ErrNotFound for a triple whose three terms have
\* ids and whose SPO key holds the object of another triple.
DeleteNotFoundFrameWitness ==
    /\ last.op = "Delete" /\ last.err = ErrNotFound
    /\ \A t \in TermsOf({last.tr}) : getID(Begin(db, 0), t).err = Ok
    /\ BitmapAt(db, "spo", getID(Begin(db, 0), last.tr.Subj).id,
                getID(Begin(db, 0), last.tr.Pred).id) # {}

\* C12: after an Insert(T) that returned nil, a second Insert(T) returns
\* nil without a single key-value write, and leaves terms, iterms, SPO, OSP,
\* POS and the sequence as the first Insert left them; whatever call of the
\* second Insert fails, the store is still the same.
InsertIdempotent ==
    (last.op = "Insert" /\ last.err = Ok)
        => /\ LET r == InsertFn(Begin(db, 0), last.tr)
              IN  UpdateErr(r) = Ok /\ r.tx.w = 0 /\ r.tx.kv = db /\ Update(db, r) = db
           /\ \A fault \in Faults :
                 Update(db, InsertFn(Begin(db, fault), last.tr)) = db

\* The second of two successive Inserts of a triple has returned nil and
\* written nothing, another triple being stored and an id collected.
InsertIdempotentWitness ==
    /\ last.op = "Insert" /\ last.err = Ok /\ ~last.wrote
    /\ Cardinality(stored) = 2
    /\ db.seq > Cardinality(DOMAIN db.terms)

\* The encoded terms of a set of terms.
Encoded(T) == {encode(t) : t \in T}

\* C13: a Delete(T) that returns nil removes from terms and iterms the
\* entries of exactly those terms of T that no triple still stored has as
\* subject, predicate or object; every other entry of the dictionary, of a
\* term of T still in use or of a term outside T, stays as it was.
DeleteCollectsExactly ==
    [][(last'.op = "Delete" /\ last'.err = Ok)
          => LET gone == Encoded(TermsOf({last'.tr}) \ TermsOf(stored'))
             IN  /\ gone \subseteq DOMAIN db.iterms
                 /\ db'.iterms = [b \in (DOMAIN db.iterms) \ gone |-> db.iterms[b]]
                 /\ db'.terms = [i \in {j \in DOMAIN db.terms : db.terms[j] \notin gone}
                                    |-> db.terms[i]]
                 /\ db'.seq = db.seq]_vars

\* A Delete has returned nil, one term of its triple is gone from the
\* dictionary and another one, used by a triple still stored, has kept its id.
DeleteCollectsExactlyWitness ==
    /\ last.op = "Delete" /\ last.err = Ok
    /\ \E t, u \in TermsOf({last.tr}) :
          /\ encode(t) \notin DOMAIN db.iterms
          /\ encode(u) \in DOMAIN db.iterms /\ u \in TermsOf(stored)

\* C14: over the committed Inserts, Deletes and ImportGraph calls, every
\* id in terms is at most the sequence, the sequence never goes back, an id
\* that stays in terms keeps its term, and an id that enters terms is
\* greater than the sequence before the call, hence than every id ever
\* committed: no id comes back for another term, and a term collected and
\* inserted again gets a greater id.
IdsNeverReused ==
    [][/\ \A i \in DOMAIN db.terms : btou32(i) \in 1..db.seq
       /\ db'.seq >= db.seq
       /\ \A i \in DOMAIN db'.terms :
             IF i \in DOMAIN db.terms
             THEN db'.terms[i] = db.terms[i]
             ELSE btou32(i) > db.seq /\ btou32(i) <= db'.seq]_vars

\* The term of <h/a> <h/a> <h/a> has been given the id MaxTerms by an
\* Insert and is alone in the dictionary: the ids below have all been
\* assigned and collected.
IdsNeverReusedWitness ==
    /\ last.op = "Insert" /\ last.err = Ok /\ last.wrote
    /\ last.tr = Triple(Ua, Ua, Ua)
    /\ db.seq = MaxTerms
    /\ DOMAIN db.terms = {u32tob(MaxTerms)}

\* C15: once the sequence is at MaxTerms, an Insert that needs a new id
\* returns ErrDBFull and leaves the dictionary, the indices and the sequence
\* as they were; an Insert returns ErrDBFull only when the ids it needs
\* would take the sequence past MaxTerms, and after it Has, Describe and
\* Delete of the stored triples work as before; the ids in the dictionary,
\* MaxTerms included, are the sequence numbers themselves, in 1..MaxTerms.
DBFullKeepsStore ==
    /\ \A b \in DOMAIN db.iterms :
          /\ btou32(db.iterms[b]) \in 1..MaxTerms
          /\ db.iterms[b] \in DOMAIN db.terms /\ db.terms[db.iterms[b]] = b
    /\ db.seq = MaxTerms
          => \A tr \in Triples :
                (\E t \in TermsOf({tr}) : encode(t) \notin DOMAIN db.iterms)
                   => LET r == InsertFn(Begin(db, 0), tr)
                      IN  UpdateErr(r) = ErrDBFull /\ Update(db, r) = db
    /\ (last.op = "Insert" /\ last.err = ErrDBFull)
          => /\ db.seq + Cardinality({t \in TermsOf({last.tr}) :
                                         encode(t) \notin DOMAIN db.iterms}) > MaxTerms
             /\ \A t \in stored :
                   /\ Has(db, t) = [exists |-> TRUE, err |-> Ok]
                   /\ UpdateErr(DeleteFn(Begin(db, 0), t)) = Ok
                   /\ ~Has(Update(db, DeleteFn(Begin(db, 0), t)), t).exists
             /\ \A n \in URIs :
                   /\ Describe(db, n, TRUE).err = Ok
                   /\ GraphTriples(Describe(db, n, TRUE).g)
                         = {t \in stored : t.Subj = n \/ t.Obj = n}

\* An Insert has returned ErrDBFull while a stored triple uses the term
\* that holds the id MaxTerms.
DBFullKeepsStoreWitness ==
    /\ last.op = "Insert" /\ last.err = ErrDBFull
    /\ u32tob(MaxTerms) \in DOMAIN db.terms
    /\ \E u \in TermsOf(stored) : encode(u) = db.terms[u32tob(MaxTerms)]

\* C16: Has, Describe, forEach, Dump and Stats leave terms, iterms, SPO,
\* OSP, POS and the sequence as they were, whatever they return.
ReadsKeepStore ==
    [][last'.op \in {"Has", "Describe", "forEach", "Dump", "Stats"} => db' = db]_vars

\* Dump has written the statements of two stored triples with different
\* subjects, after an id had been collected.
ReadsKeepStoreWitness ==
    /\ last.op = "Dump" /\ last.err = Ok
    /\ \E t, u \in stored : t.Subj # u.Subj
    /\ db.seq > Cardinality(DOMAIN db.terms)

\* C19: Has(T) returns (false, nil) when the subject, the predicate or the
\* object of T has no entry in iterms, and when the three have ids but SPO
\* has no key for the subject and the predicate.
HasFalseNotError ==
    \A tr \in Triples :
        LET unknown == \E t \in TermsOf({tr}) : encode(t) \notin DOMAIN db.iterms
            nokey   == /\ ~unknown
                       /\ CompoundKey(btou32(db.iterms[encode(tr.Subj)]),
                                      btou32(db.iterms[encode(tr.Pred)])) \notin DOMAIN db.spo
        IN  (unknown \/ nokey)
               => /\ Has(db, tr) = [exists |-> FALSE, err |-> Ok]
                  /\ (last.op = "Has" /\ last.tr = tr) => (~last.exists /\ last.err = Ok)

\* Has has returned (false, nil) for a triple whose three terms have ids
\* and whose subject and predicate have no key in SPO.
HasFalseNotErrorWitness ==
    /\ last.op = "Has" /\ ~last.exists /\ last.err = Ok
    /\ \A t \in TermsOf({last.tr}) : encode(t) \in DOMAIN db.iterms
    /\ BitmapAt(db, "spo", getID(Begin(db, 0), last.tr.Subj).id,
                getID(Begin(db, 0), last.tr.Pred).id) = {}
    /\ last.tr.Obj # last.tr.Subj

(***************************************************************************)
(* The codec on its own: encode applied to a term, decode to its bytes.    *)
(***************************************************************************)
MaxCodecLen == 3

\* The strings of at most n bytes out of h / a and space.
CodecStrings(n) == UNION {[1..k -> {104, 47, 97, 32}] : k \in 0..n}

\* A string of 256 bytes, one more than a length byte can say.
LongString == [i \in 1..256 |-> 97]

RecognizedDatatypes ==
    {XSDstring, XSDboolean, XSDbyte, XSDint, XSDshort, XSDlong, XSDinteger,
     XSDunsignedShort, XSDunsignedInt, XSDunsignedLong, XSDunsignedByte,
     XSDfloat, XSDdouble, XSDdateTimeStamp}

\* URIs with and without the base prefix, literals of every tag; URI values
\* are the strings a caller can convert to rdf.URI, not only those of NewURI.
CodecTerms ==
    {URI(s) : s \in CodecStrings(MaxCodecLen)}
    \cup {NewTypedLiteral(v, dt) : v \in {<<>>, <<120>>}, dt \in RecognizedDatatypes}
    \cup {NewLangLiteral(v, l) : v \in {<<>>, <<120>>}, l \in {<<>>, <<101, 110>>, LongString}}
    \cup {NewTypedLiteral(v, dt) : v \in {<<>>, <<120>>},
                                   dt \in CodecStrings(MaxCodecLen - 1) \cup {LongString}}

EncodeOp(t) ==
    /\ last' = [op |-> "encode", term |-> t, b |-> encode(t)]
    /\ UNCHANGED <<db, stored, cvars>>

DecodeOp ==
    /\ last.op = "encode"
    /\ last' = [op |-> "decode", term |-> last.term, b |-> last.b, res |-> decode(last.b)]
    /\ UNCHANGED <<db, stored, cvars>>

\* The values of terms a damaged file may hold: the strings of at most n
\* bytes out of the tags 0, 2, 3 and 255, an unknown tag, 1 and the letter a.
CodecBuffers(n) == UNION {[1..k -> {0, 1, 2, 3, 17, 97, 255}] : k \in 0..n}

\* decode applied to the bytes b of a terms entry.
DecodeBytesOp(b) ==
    /\ last' = [op |-> "decodeBytes", b |-> b, res |-> decode(b)]
    /\ UNCHANGED <<db, stored, cvars>>

NextCodec ==
    \/ \E t \in CodecTerms : EncodeOp(t)
    \/ DecodeOp
    \/ \E b \in CodecBuffers(MaxCodecLen) : DecodeBytesOp(b)

SpecCodec == Init /\ [][NextCodec]_vars

\* C20: for every RDF term t (URI with or without the base prefix, plain,
\* language-tagged and typed literal, literal with an arbitrary datatype
\* URI), decode(encode(t)) returns t and no error.
CodecRoundTrip ==
    last.op = "decode" => last.res = [err |-> FALSE, term |-> last.term]

\* The terms decode gives back: those whose length bytes hold the length and
\* whose arbitrary datatype URI NewURI leaves as it is.
RoundTripTerm(t) ==
    t.kind = "Literal" =>
        /\ Len(t.language) <= 255
        /\ DatatypeTag(t.datatype) = 255 /\ t.datatype # RDFlangString =>
              Len(t.datatype) <= 255 /\ StripChars(t.datatype) = t.datatype

CodecRoundTripOfNewURI ==
    last.op = "decode" /\ RoundTripTerm(last.term)
        => last.res = [err |-> FALSE, term |-> last.term]

(***************************************************************************)
(* Callers running in parallel.  Every public operation passes one         *)
(* function to View or to Update of the key-value store: View runs it on   *)
(* the store as committed when the transaction began, Update runs it       *)
(* holding the writer lock and commits what it wrote when it returns nil.  *)
(* The callback of a View is taken one lookup or one key of its cursor at  *)
(* a time, with the commits of the writers in between.                     *)
(***************************************************************************)
\* The triples the parallel callers pass.
ConcTriples == {Triple(Ua, Ub, Lx), Triple(Ub, Ua, Ua)}

\* The calls that run in a View.
ReadCalls ==
    {[op |-> "forEach"], [op |-> "Dump"]}
    \cup {[op |-> "Has", tr |-> tr] : tr \in ConcTriples}
    \cup {[op |-> "Describe", node |-> node, asObject |-> TRUE] : node \in URIs}

\* The calls that run in an Update.
WriteCalls ==
    {[op |-> o, tr |-> tr] : o \in {"Insert", "Delete"}, tr \in ConcTriples}
    \cup {[op |-> "ImportGraph", g |-> g, so |-> so, po |-> po] :
             g \in {GraphOf(ImportTriples)}, so \in Orders(URIs),
             po \in {[s \in URIs |-> [i \in {1} |-> IF s = Ua THEN Ub ELSE Ua]]}}

\* The function a write call passes to Update.
CallFn(tx, call) ==
    CASE call.op = "Insert"      -> InsertFn(tx, call.tr)
      [] call.op = "Delete"      -> DeleteFn(tx, call.tr)
      [] call.op = "ImportGraph" -> ImportGraphFn(tx, call.g, call.so, call.po)

\* The triples stored after a write call has returned nil.
CallStored(S, call) ==
    CASE call.op = "Insert"      -> S \cup {call.tr}
      [] call.op = "Delete"      -> S \ {call.tr}
      [] call.op = "ImportGraph" -> S \cup GraphTriples(call.g)

\* What a read call returns when its whole function runs on one store.
ReadFn(store, call) ==
    CASE call.op = "Has"      -> Has(store, call.tr)
      [] call.op = "Describe" -> Describe(store, call.node, call.asObject)
      [] call.op = "forEach"  -> forEach(store)
      [] call.op = "Dump"     -> Dump(store)

\* The callback of a View as it starts: pc is the loop it is in, n the
\* lookup or the cursor position it is at, cur the id it carries along
\* (curSubj of Dump, the id of the node of Describe), acc what it has
\* built so far.
readStart(call, tx) ==
    [call |-> call, tx |-> tx, pc |-> "run", n |-> 1, cur |-> 0,
     exists |-> FALSE, err |-> Ok,
     acc |-> CASE call.op = "Dump" -> << <<64, 98, 97, 115, 101, 32, 60>>, Base, <<62>> >>
               [] call.op = "Describe" -> NewGraph
               [] OTHER -> <<>>]

\* DB.Has, one lookup: the ids of subject, predicate and object, then the
\* bitmap of the key of SPO.
hasStep(store, s) ==
    IF s.n <= 3
    THEN LET g == getID(Begin(store, 0), <<s.call.tr.Subj, s.call.tr.Pred, s.call.tr.Obj>>[s.n])
         IN  IF g.err = ErrNotFound THEN [s EXCEPT !.pc = "done"]
             ELSE [s EXCEPT !.acc = Append(s.acc, g.id), !.n = s.n + 1]
    ELSE LET sp == CompoundKey(s.acc[1], s.acc[2])
         IN  [s EXCEPT !.pc = "done",
                       !.exists = /\ sp \in DOMAIN store.spo
                                  /\ s.acc[3] \in ReadFrom(store.spo[sp])]

\* DB.forEach, one key of SPO with its bitmap.
forEachStep(store, s) ==
    LET keys == SortedKeys(DOMAIN store.spo)
    IN  IF s.n > Len(keys) THEN [s EXCEPT !.pc = "done"]
        ELSE LET r == forEachLoop(store, SubSeq(keys, 1, s.n), s.n, s.acc)
             IN  [s EXCEPT !.acc = r.out, !.err = r.err, !.n = s.n + 1,
                           !.pc = IF r.err = Ok THEN "run" ELSE "done"]

\* DB.Dump, one key of SPO with its bitmap; after the last key the
\* closing " .\n".
dumpStep(store, s) ==
    LET keys == SortedKeys(DOMAIN store.spo)
    IN  IF s.n > Len(keys)
        THEN [s EXCEPT !.pc = "done", !.acc = s.acc \o << <<32, 46, 10>> >>]
        ELSE LET r == dumpLoop(store, SubSeq(keys, 1, s.n), s.n, s.cur, s.acc)
             IN  [s EXCEPT !.acc = r.out, !.err = r.err, !.n = s.n + 1,
                           !.cur = btou32(SubSeq(keys[s.n], 1, 4)),
                           !.pc = IF r.err = Ok THEN "run" ELSE "done"]

\* DB.Describe: the lookup of the node in iterms, then one key of the
\* cursor over SPO and, with asObject, over OSP.
describeStep(store, s) ==
    IF s.pc = "run"
    THEN IF encode(s.call.node) \notin DOMAIN store.iterms THEN [s EXCEPT !.pc = "done"]
         ELSE LET sid == btou32(store.iterms[encode(s.call.node)])
              IN  [s EXCEPT !.pc = "spo", !.cur = sid,
                            !.n = CursorSeek(SortedKeys(DOMAIN store.spo), u32tobPred(sid))]
    ELSE LET keys == SortedKeys(DOMAIN store[s.pc])
             bs   == u32tob(s.cur)
         IN  IF s.n > Len(keys) \/ bytesCompare(SubSeq(keys[s.n], 1, 4), bs) = 1
             THEN IF s.pc = "spo" /\ s.call.asObject
                  THEN [s EXCEPT !.pc = "osp",
                                 !.n = CursorSeek(SortedKeys(DOMAIN store.osp),
                                                  u32tobPred(s.cur))]
                  ELSE [s EXCEPT !.pc = "done"]
             ELSE LET r == describeLoop(store, s.pc, SubSeq(keys, 1, s.n), s.n, bs,
                                        s.call.node, s.acc)
                  IN  [s EXCEPT !.acc = r.g, !.err = r.err, !.n = s.n + 1,
                                !.pc = IF r.err = Ok THEN s.pc ELSE "done"]

\* One step of the callback of a read call on the store it reads.
readStep(store, s) ==
    CASE s.call.op = "Has"      -> hasStep(store, s)
      [] s.call.op = "Describe" -> describeStep(store, s)
      [] s.call.op = "forEach"  -> forEachStep(store, s)
      [] s.call.op = "Dump"     -> dumpStep(store, s)

\* What the read call returns once its callback is done.
readResult(s) ==
    CASE s.call.op = "Has"      -> [exists |-> s.exists, err |-> s.err]
      [] s.call.op = "Describe" -> [err |-> s.err, g |-> s.acc]
      [] s.call.op = "forEach"  -> [err |-> s.err, out |-> s.acc]
      [] s.call.op = "Dump"     -> [err |-> s.err, out |-> s.acc]

\* db.kv.View(fn): the transaction begins on the committed store.
ViewBegin(call) ==
    /\ rd = Idle
    /\ rd' = readStart(call, Begin(db, 0))
    /\ UNCHANGED <<db, stored, last, wr, serial>>

\* The callback opening a transaction of its own for every step.
ViewStepFreshView ==
    /\ rd # Idle
    /\ rd.pc # "done"
    /\ rd' = readStep(db, rd)
    /\ UNCHANGED <<db, stored, last, wr, serial>>

\* One step of fn: every lookup goes through the tx that View has passed.
ViewStep ==
    /\ rd # Idle
    /\ rd.pc # "done"
    /\ rd' = readStep(rd.tx.kv, rd)
    /\ UNCHANGED <<db, stored, last, wr, serial>>

\* fn has returned: View ends the transaction, the call returns.
ViewEnd ==
    /\ rd # Idle
    /\ rd.pc = "done"
    /\ rd' = Idle
    /\ UNCHANGED <<db, stored, last, wr, serial>>

\* Update beginning its transaction without taking the writer lock.
UpdateBeginNoLock(w, call) ==
    /\ wr[w] = Idle
    /\ Cardinality(CallStored(stored, call)) <= MaxTriples
    /\ wr' = [wr EXCEPT ![w] = [call |-> call, tx |-> Begin(db, 0)]]
    /\ UNCHANGED <<db, stored, last, rd, serial>>

\* db.kv.Update(fn) of writer w: it takes the writer lock, which no other
\* writer holds, and begins its transaction on the committed store.
UpdateBegin(w, call) ==
    /\ \A v \in Writers : wr[v] = Idle
    /\ Cardinality(CallStored(stored, call)) <= MaxTriples
    /\ wr' = [wr EXCEPT ![w] = [call |-> call, tx |-> Begin(db, 0)]]
    /\ UNCHANGED <<db, stored, last, rd, serial>>

\* fn runs on the transaction of writer w, with the fault-th write failing,
\* and returns: Update commits or rolls back and releases the lock.  serial
\* runs the same call on the store of the calls that have returned before.
UpdateEnd(w, fault) ==
    /\ wr[w] # Idle
    /\ \E r \in {CallFn([wr[w].tx EXCEPT !.fault = fault], wr[w].call)} :
          /\ db' = Update(db, r)
          /\ stored' = IF UpdateErr(r) = Ok THEN CallStored(stored, wr[w].call) ELSE stored
    /\ serial' = Update(serial, CallFn(Begin(serial, fault), wr[w].call))
    /\ wr' = [wr EXCEPT ![w] = Idle]
    /\ UNCHANGED <<rd, last>>

NextConc ==
    \/ \E call \in ReadCalls : ViewBegin(call)
    \/ ViewStep
    \/ ViewEnd
    \/ \E w \in Writers, call \in WriteCalls : UpdateBegin(w, call)
    \/ \E w \in Writers, fault \in Faults : UpdateEnd(w, fault)

SpecConc == Init /\ [][NextConc]_vars

\* C17: a Has, Describe, forEach or Dump running in parallel with the
\* writers returns what its function gives on the store as committed when
\* its transaction began; it returns neither 'bug: term ID in index, but
\* not stored' nor the ErrNotFound of getTerm.
SnapshotReads ==
    (rd # Idle /\ rd.pc = "done")
        => /\ readResult(rd) = ReadFn(rd.tx.kv, rd.call)
           /\ rd.err = Ok

SnapshotReadsWitness ==
    /\ rd # Idle
    /\ rd.pc = "done"
    /\ rd.call.op = "forEach"
    /\ Len(rd.acc) = 2
    /\ rd.tx.kv # db
    /\ \E i \in DOMAIN rd.tx.kv.terms : i \notin DOMAIN db.terms

Malformed(b) ==
    \/ Len(b) = 0
    \/ b[1] \notin (0..16) \cup {255}
    \/ b[1] \in {3, 255} /\ (Len(b) < 2 \/ b[2] > Len(b) - 2)

\* C22: decode returns an error, and neither panics nor returns a term,
\* for every malformed byte string.
DecodeRejectsMalformed ==
    (last.op = "decodeBytes" /\ Malformed(last.b)) => last.res = [err |-> TRUE]

\* What decode does on the malformed byte strings: it returns an error but
\* for tag 0xFF with a length byte L and L-1 or L bytes after the header
\* (Len(b) in L..L+1), where the slice b[L+2:] panics.
DecodeOfMalformed ==
    (last.op = "decodeBytes" /\ Malformed(last.b))
        => /\ last.res.err
           /\ "term" \notin DOMAIN last.res
           /\ "panic" \in DOMAIN last.res
                 <=> Len(last.b) >= 2 /\ last.b[1] = 255 /\ Len(last.b) >= last.b[2]

(***************************************************************************)
(* Inserts of literals at the limit of the 1-byte length field.            *)
(***************************************************************************)
\* Triples whose object has a language tag or an arbitrary datatype URI of
\* 255 and of 256 bytes.
LimitTriples ==
    {Triple(s, Ub, o) :
        s \in URIs,
        o \in {NewLangLiteral(<<120>>, SubSeq(LongString, 1, 255)),
               NewLangLiteral(<<120>>, LongString),
               NewTypedLiteral(<<120>>, SubSeq(LongString, 1, 255)),
               NewTypedLiteral(<<120>>, LongString)}}

NextLimits ==
    \/ \E tr \in LimitTriples, fault \in Faults : Insert(tr, fault)
    \/ \E tr \in LimitTriples, fault \in Faults : Delete(tr, fault)

SpecLimits == Init /\ [][NextLimits]_vars

\* C21: an Insert of a triple whose object has a language tag or an
\* arbitrary datatype URI longer than 255 bytes returns an error and stores
\* nothing.
LongTagsRejected ==
    (/\ last.op = "Insert"
     /\ Len(last.tr.Obj.language) > 255 \/ Len(last.tr.Obj.datatype) > 255)
        => /\ last.err # Ok
           /\ ~last.wrote
           /\ last.tr \notin stored

(***************************************************************************)
(* The Turtle decoder, on the tokens its scanner hands out.                *)
(***************************************************************************)
EOF    == "EOF"
ErrParse == "parse error"
ErrPanic == "panic"

Tok(type, text) == [Type |-> type, Text |-> text]

\* Triple{}: the value of Decoder.tr before the first triple is parsed.
ZeroTriple ==
    Triple(URI(<<>>), URI(<<>>),
           [kind |-> "nil", value |-> <<>>, language |-> <<>>, datatype |-> <<>>])

\* NewDecoder: the scanner is the tokens it will hand out, Skolemize is nil.
NewDecoder(toks) ==
    [toks |-> toks, ns |-> [p \in {} |-> <<>>], tr |-> ZeroTriple,
     keepSubj |-> FALSE, keepPred |-> FALSE, Base |-> <<>>]

\* scanner.Scan: the next token, tokenEOF at the end of the input.
Scan(d) == IF d.toks = <<>> THEN Tok("EOF", <<>>) ELSE Head(d.toks)

\* The decoder after the scanner has handed out a token.
Scanned(d) == IF d.toks = <<>> THEN d ELSE [d EXCEPT !.toks = Tail(d.toks)]

\* URI.Resolve
Resolve(u, base) ==
    IF HasPrefix(u, <<104, 116, 116, 112, 58, 47, 47>>) \/ base = <<>> THEN u
    ELSE IF u # <<>> /\ u[1] \in {47, 35}
         THEN (IF base[Len(base)] = u[1] THEN SubSeq(base, 1, Len(base) - 1) ELSE base) \o u
         ELSE IF base[Len(base)] \in {47, 35} THEN base \o u ELSE base \o <<47>> \o u

\* Decoder.unshrinkURI with PrefixMap.Resolve: the text up to the first
\* colon is looked up in the prefixes.
unshrinkURI(d, s) ==
    LET colons == {i \in 1..Len(s) : s[i] = 58}
    IN  IF colons # {} /\ Min(colons) > 1 /\ SubSeq(s, 1, Min(colons) - 1) \in DOMAIN d.ns
        THEN NewURI(d.ns[SubSeq(s, 1, Min(colons) - 1)] \o From(s, Min(colons)))
        ELSE URI(s)

\* The URI of a token of type URI or URIshrinked.
tokenURI(d, tok) ==
    IF tok.Type = "URIshrinked" THEN unshrinkURI(d, tok.Text)
    ELSE URI(Resolve(tok.Text, d.Base))

\* Decoder.errorExpected
errorExpected(d, tok) ==
    [d |-> d, tr |-> d.tr, err |-> IF tok.Type = "EOF" THEN EOF ELSE ErrParse]

\* Decoder.Decode from one of its labels on; tok is the variable tok.  The
\* result is the decoder, the triple returned and io.EOF, an error of
\* errorExpected, the panic of the default case, or nil.
RECURSIVE DecodeAt(_, _, _)
DecodeAt(label, d, tok) ==
    LET t  == Scan(d)
        d1 == Scanned(d)
    IN  CASE label = "start" ->
               (CASE t.Type = "EOF" -> [d |-> d1, tr |-> d1.tr, err |-> EOF]
                  [] t.Type = "EOL" -> DecodeAt("start", d1, t)
                  [] t.Type = "BaseDirective" -> DecodeAt("scanAndStoreBase", d1, t)
                  [] t.Type = "PrefixDirective" -> DecodeAt("scanAndStorePrefix", d1, t)
                  [] t.Type \in {"URI", "URIshrinked"} ->
                       IF d.keepSubj
                       THEN IF d.keepPred THEN DecodeAt("storeObjURI", d1, t)
                                          ELSE DecodeAt("storePred", d1, t)
                       ELSE DecodeAt("storeSubj", d1, t)
                  [] t.Type = "Literal" ->
                       IF ~d.keepPred THEN errorExpected(d1, t)
                       ELSE DecodeAt("storeObjLiteral", d1, t)
                  [] t.Type = "BNode" -> DecodeAt("scanUntilNextStatement", d1, t)
                  [] OTHER -> [d |-> d1, tr |-> d1.tr, err |-> ErrPanic])
          [] label = "scanAndStoreBase" ->
               IF t.Type # "URI" THEN errorExpected(d1, t)
               ELSE DecodeAt("scanDirectiveTermination", [d1 EXCEPT !.Base = t.Text], t)
          [] label = "scanAndStorePrefix" ->
               IF t.Type # "Prefix" THEN errorExpected(d1, t)
               ELSE LET t2 == Scan(d1)
                        d2 == Scanned(d1)
                    IN  IF t2.Type # "URI" THEN errorExpected(d2, t2)
                        ELSE DecodeAt("scanDirectiveTermination",
                                      [d2 EXCEPT !.ns = BucketPut(d2.ns, t.Text, t2.Text)], t2)
          [] label = "storeSubj" ->
               DecodeAt("scanPred", [d EXCEPT !.tr.Subj = tokenURI(d, tok)], tok)
          [] label = "scanPred" ->
               IF t.Type \notin {"URI", "URIshrinked"} THEN errorExpected(d1, t)
               ELSE DecodeAt("storePred", d1, t)
          [] label = "storePred" ->
               LET d2 == [d EXCEPT !.tr.Pred = tokenURI(d, tok)]
                   t3 == Scan(d2)
                   d3 == Scanned(d2)
               IN  CASE t3.Type \in {"URI", "URIshrinked"} -> DecodeAt("storeObjURI", d3, t3)
                     [] t3.Type = "BNode" -> DecodeAt("scanUntilNextStatement", d3, t3)
                     [] t3.Type = "Literal" -> DecodeAt("storeObjLiteral", d3, t3)
                     [] OTHER -> errorExpected(d3, t3)
          [] label = "storeObjURI" ->
               DecodeAt("scanTripleTermination", [d EXCEPT !.tr.Obj = tokenURI(d, tok)], tok)
          [] label = "storeObjLiteral" ->
               (CASE t.Type = "LangTag" ->
                       DecodeAt("scanTripleTermination",
                                [d1 EXCEPT !.tr.Obj = NewLangLiteral(tok.Text, t.Text)], tok)
                  [] t.Type \in {"Dot", "Semicolon", "Comma"} ->
                       DecodeAt("actOnTripleTermination",
                                [d1 EXCEPT !.tr.Obj = NewTypedLiteral(tok.Text, XSDstring)], t)
                  [] t.Type = "TypeMarker" -> DecodeAt("scanLiteralDatatype", d1, tok)
                  [] OTHER -> errorExpected(d1, t))
          [] label = "scanLiteralDatatype" ->
               IF t.Type \in {"URI", "URIshrinked"}
               THEN DecodeAt("scanTripleTermination",
                             [d1 EXCEPT !.tr.Obj = NewTypedLiteral(tok.Text, tokenURI(d1, t).value)],
                             tok)
               ELSE errorExpected(d1, t)
          [] label = "scanDirectiveTermination" ->
               IF t.Type # "Dot" THEN errorExpected(d1, t)
               ELSE DecodeAt("start", d1, t)
          [] label = "scanUntilNextStatement" ->
               (CASE t.Type \in {"Semicolon", "Comma", "Dot"} -> DecodeAt("start", d1, t)
                  [] t.Type = "EOF" -> [d |-> d1, tr |-> d1.tr, err |-> EOF]
                  [] OTHER -> DecodeAt("scanUntilNextStatement", d1, t))
          [] label = "scanTripleTermination" ->
               DecodeAt("actOnTripleTermination", d1, t)
          [] label = "actOnTripleTermination" ->
               (CASE tok.Type = "Semicolon" ->
                       [d |-> [d EXCEPT !.keepSubj = TRUE, !.keepPred = FALSE],
                        tr |-> d.tr, err |-> Ok]
                  [] tok.Type = "Comma" ->
                       [d |-> [d EXCEPT !.keepSubj = TRUE, !.keepPred = TRUE],
                        tr |-> d.tr, err |-> Ok]
                  [] tok.Type = "Dot" ->
                       [d |-> [d EXCEPT !.keepSubj = FALSE, !.keepPred = FALSE],
                        tr |-> d.tr, err |-> Ok]
                  [] tok.Type = "EOL" -> DecodeAt("scanTripleTermination", d, tok)
                  [] OTHER -> errorExpected(d, tok))

\* Decoder.Decode
Decode(d) == DecodeAt("start", d, Tok("EOF", <<>>))

\* A blank node, as the subject or the object of a statement of a stream.
BNode == [kind |-> "BNode", value |-> <<110>>, language |-> <<>>, datatype |-> <<>>]

\* The tokens of a term of a statement.
TermTokens(t) ==
    CASE t.kind = "URI"   -> <<Tok("URI", t.value)>>
      [] t.kind = "BNode" -> <<Tok("BNode", t.value)>>
      [] t.datatype = RDFlangString ->
             <<Tok("Literal", t.value), Tok("LangTag", t.language)>>
      [] t.datatype = XSDstring -> <<Tok("Literal", t.value)>>
      [] OTHER -> <<Tok("Literal", t.value), Tok("TypeMarker", <<>>), Tok("URI", t.datatype)>>

\* The tokens of a Turtle statement with subject s and the predicate-object
\* pairs po from the n-th on: ',' between two objects of one predicate, ';'
\* before another predicate, '.' at the end.
RECURSIVE PairTokens(_, _)
PairTokens(po, n) ==
    IF n > Len(po) THEN <<Tok("Dot", <<>>)>>
    ELSE (IF n = 1 THEN TermTokens(po[n][1])
          ELSE IF po[n][1] = po[n - 1][1] THEN <<Tok("Comma", <<>>)>>
          ELSE <<Tok("Semicolon", <<>>)>> \o TermTokens(po[n][1]))
         \o TermTokens(po[n][2]) \o PairTokens(po, n + 1)

StatementTokens(st) == TermTokens(st.subj) \o PairTokens(st.po, 1)

\* The triples a statement states that have no blank node, in its order.
RECURSIVE StatementTriples(_, _)
StatementTriples(st, n) ==
    IF n > Len(st.po) THEN <<>>
    ELSE (IF st.subj = BNode \/ st.po[n][2] = BNode THEN <<>>
          ELSE <<Triple(st.subj, st.po[n][1], st.po[n][2])>>)
         \o StatementTriples(st, n + 1)

MaxPairs == 3

\* The statements of the streams: a URI or a blank node as subject and up
\* to MaxPairs predicate-object pairs.
Statements ==
    {[subj |-> s, po |-> po] :
        s \in {Ua, BNode},
        po \in UNION {[1..k -> URIs \X {Ub, Lx, BNode}] : k \in 1..MaxPairs}}

MaxToks == 3

TokenTypes ==
    {"Illegal", "EOL", "BaseDirective", "PrefixDirective", "Prefix", "URI", "URIshrinked",
     "BNode", "Literal", "LangTag", "TypeMarker", "Comma", "Semicolon", "Dot"}

\* The inputs of the decoder: the well-formed streams of one statement,
\* alone or before the statement <b> <b> <b> ., with the triples they
\* state, and every sequence of at most MaxToks tokens.
Streams ==
    {[toks |-> StatementTokens(st) \o tail, wf |-> TRUE,
      want |-> StatementTriples(st, 1)
               \o (IF tail = <<>> THEN <<>> ELSE <<Triple(Ub, Ub, Ub)>>)] :
        st \in Statements,
        tail \in {<<>>, StatementTokens([subj |-> Ub, po |-> <<<<Ub, Ub>>>>])}}
    \cup {[toks |-> [i \in DOMAIN ty |-> Tok(ty[i], <<112, 58>>)], wf |-> FALSE, want |-> <<>>] :
             ty \in UNION {[1..k -> TokenTypes] : k \in 0..MaxToks}}

\* rdf.NewDecoder(r) on one of the streams, and a new store.
InitDecoder ==
    /\ db = EmptyDB
    /\ stored = {}
    /\ last \in {[op |-> "NewDecoder", in |-> in, d |-> NewDecoder(in.toks),
                   err |-> Ok, got |-> <<>>] : in \in Streams}
    /\ rd = Idle
    /\ wr = [w \in Writers |-> Idle]
    /\ serial = EmptyDB

\* One turn of the loop of Import and of DecodeGraph: Decode is called
\* until it returns io.EOF; got is the triples it has returned with nil.
DecodeNext ==
    /\ last.op \in {"NewDecoder", "Decode"}
    /\ last.err \notin {EOF, ErrPanic}
    /\ \E r \in {Decode(last.d)} :
          last' = [op |-> "Decode", in |-> last.in, d |-> r.d, err |-> r.err,
                   got |-> IF r.err = Ok THEN Append(last.got, r.tr) ELSE last.got]
    /\ UNCHANGED <<db, stored, cvars>>

SpecDecoder == InitDecoder /\ [][DecodeNext]_vars

\* C27: with Skolemize nil the decoder discards exactly the triples with a
\* blank node as subject or object: at the end of a well-formed stream it
\* has returned, without an error, the other triples the stream states.
BlankNodesIgnored ==
    (last.op = "Decode" /\ last.in.wf)
        => /\ last.err \in {Ok, EOF}
           /\ last.err = EOF => last.got = last.in.want

(***************************************************************************)
(* DB.Import: the decoded triples are collected and committed in batches.  *)
(***************************************************************************)
\* The order in which a range statement visits the keys S of a map, when
\* the maps of URIs are visited in the order ord.
OrderOf(ord, S) ==
    LET idx == {i \in DOMAIN ord : ord[i] \in S}
    IN  [k \in 1..Cardinality(S) |->
            ord[CHOOSE i \in idx : Cardinality({j \in idx : j < i}) = k - 1]]

\* F applied to the value of e, with e evaluated once.
Bind(e, F(_)) == CHOOSE y \in {F(x) : x \in {e}} : TRUE

\* db.ImportGraph(g) as Import calls it for its next batch; the batch
\* numbered p.failAt meets the fault.
importBatch(st, p) ==
    ImportGraphFn(Begin(st.store, IF st.k + 1 = p.failAt THEN p.fault ELSE 0), st.g,
                  OrderOf(p.ord, DOMAIN st.g),
                  [s \in DOMAIN st.g |-> OrderOf(p.ord, DOMAIN st.g[s])])

\* What Import returns: the store it leaves, the count n and the error, with
\* the number k of batches committed and the triples seq Decode returned.
importResult(st, n, err) ==
    [store |-> st.store, n |-> n, err |-> err, k |-> st.k, seq |-> st.seq]

\* DB.Import after its loop, with the count of the last batch left out.
importRestNoCount(st, p) ==
    IF DOMAIN st.g # {}
    THEN Bind(importBatch(st, p), LAMBDA u :
             IF UpdateErr(u) # Ok THEN importResult(st, st.c, UpdateErr(u))
             ELSE importResult([st EXCEPT !.store = Update(st.store, u), !.k = st.k + 1],
                               st.c, Ok))
    ELSE importResult(st, st.c, Ok)

\* DB.Import after its loop: a graph that is not empty is committed as the
\* last batch and its count i added to c.
importRest(st, p) ==
    IF DOMAIN st.g # {}
    THEN Bind(importBatch(st, p), LAMBDA u :
             IF UpdateErr(u) # Ok THEN importResult(st, st.c, UpdateErr(u))
             ELSE importResult([st EXCEPT !.store = Update(st.store, u), !.k = st.k + 1],
                               st.c + st.i, Ok))
    ELSE importResult(st, st.c, Ok)

\* A full batch of the loop of DB.Import whose failed transaction is kept.
importFullNoRollback(st, p) ==
    Bind(importBatch(st, p), LAMBDA u :
        IF UpdateErr(u) # Ok
        THEN [st EXCEPT !.store = UpdateNoRollback(st.store, u), !.err = UpdateErr(u)]
        ELSE [st EXCEPT !.store = Update(st.store, u), !.c = st.c + st.i, !.i = 0,
                        !.g = NewGraph, !.k = st.k + 1])

\* A full batch of the loop of DB.Import: the graph is committed; on an
\* error the loop ends (err is set), otherwise i is added to c and a new
\* graph begun.
importFull(st, p) ==
    Bind(importBatch(st, p), LAMBDA u :
        IF UpdateErr(u) # Ok THEN [st EXCEPT !.err = UpdateErr(u)]
        ELSE [st EXCEPT !.store = Update(st.store, u), !.c = st.c + st.i, !.i = 0,
                        !.g = NewGraph, !.k = st.k + 1])

\* The loop of DB.Import and what follows it.  st holds the store, the
\* decoder d, the graph g of the current batch, the total count c and the
\* batch count i; k counts the batches committed and seq lists the triples
\* Decode has returned.  A panic of Decode ends Import where it stands.
RECURSIVE ImportLoop(_, _)
ImportLoop(st, p) ==
    Bind(Decode(st.d), LAMBDA r :
        IF r.err = EOF THEN importRest(st, p)
        ELSE IF r.err = ErrPanic THEN importResult(st, st.c, ErrPanic)
        ELSE IF r.err # Ok
        THEN Bind([st EXCEPT !.d = r.d], LAMBDA s1 : ImportLoop(s1, p))
        ELSE Bind([st EXCEPT !.d = r.d, !.g = GraphInsert(st.g, r.tr),
                             !.i = st.i + 1, !.seq = Append(st.seq, r.tr)], LAMBDA s1 :
                 IF s1.i = p.batchSize
                 THEN Bind(importFull(s1, p), LAMBDA s2 :
                          IF s2.err # Ok THEN importResult(s2, s2.c, s2.err)
                          ELSE ImportLoop(s2, p))
                 ELSE ImportLoop(s1, p)))

MaxBatch == 3

\* The streams Import is called with: the statements of <h/a> with up to
\* MaxPairs objects of the predicate <b>, and the sequences of at most MaxToks of
\* the tokens URI, Literal and '.', each alone or before <b> <b> <b> . .
ImportStreams ==
    {[toks |-> StatementTokens(st) \o tail, wf |-> TRUE] :
        st \in {x \in Statements : x.subj = Ua /\ \A j \in DOMAIN x.po :
                                      x.po[j][1] = Ub /\ x.po[j][2] # BNode},
        tail \in {<<>>, StatementTokens([subj |-> Ub, po |-> <<<<Ub, Ub>>>>])}}
    \cup {[toks |-> [i \in DOMAIN ty |-> Tok(ty[i], IF ty[i] = "URI" THEN Ub.value ELSE Lx.value)]
                      \o tail, wf |-> FALSE] :
             ty \in UNION {[1..k -> {"URI", "Literal", "Dot"}] : k \in 1..MaxToks},
             tail \in {<<>>, StatementTokens([subj |-> Ub, po |-> <<<<Ub, Ub>>>>])}}

\* The triples of seq[1..n], as a set.
Committed(seq, n) == {seq[j] : j \in 1..(IF n < Len(seq) THEN n ELSE Len(seq))}

\* DB.Import(r, batchSize)
Import(in, p) ==
    /\ Cardinality(stored) < MaxTriples
    /\ \E res \in {ImportLoop([store |-> db, d |-> NewDecoder(in.toks), g |-> NewGraph,
                               c |-> 0, i |-> 0, k |-> 0, seq |-> <<>>, err |-> Ok], p)} :
          /\ db' = res.store
          /\ stored' = stored \cup
                 Committed(res.seq, IF res.err = Ok THEN Len(res.seq) ELSE res.k * p.batchSize)
          /\ last' = [op |-> "Import", wf |-> in.wf, batchSize |-> p.batchSize, n |-> res.n,
                      err |-> res.err, k |-> res.k, seq |-> res.seq]
    /\ UNCHANGED cvars

NextImport ==
    \/ \E in \in ImportStreams :
          \E p \in [batchSize : 1..MaxBatch, ord : Orders(URIs), failAt : 0..2, fault : 1..MaxFault] :
             Import(in, p)
    \/ ForEachOp

SpecImport == Init /\ [][NextImport]_vars

\* C26: a parse error never ends Import: whatever the stream, Import
\* returns without a panic, with no error unless a commit failed, and the
\* count of a successful Import is the number of triples decoded.
ParseErrorsSkipped ==
    last.op = "Import" =>
        /\ last.err # ErrPanic
        /\ last.err = Ok => last.n = Len(last.seq)

\* C24: on success the count Import returns is the number of distinct
\* triples of the stream that were committed.
ImportCountsDistinct ==
    (last.op = "Import" /\ last.err = Ok) => last.n = Cardinality(Range(last.seq))

\* C25: on success the count Import returns includes the triples of the
\* last, partial batch as well as those of every full batch: it is the
\* number of triples decoded, whatever batchSize and the stream length.
ImportCountsLastBatch ==
    (last.op = "Import" /\ last.err = Ok) => last.n = Len(last.seq)

\* Import has succeeded with a full batch and a partial one, with full
\* batches only, and with a partial batch only.
ImportCountsLastBatchWitness ==
    /\ last.op = "Import" /\ last.err = Ok /\ last.wf
    /\ last.batchSize = 3 /\ Len(last.seq) = 4 /\ last.k = 2 /\ last.n = 4

\* C23: Import commits per batch: when the commit of a batch fails, Import
\* returns the error with the number of triples of the batches before it,
\* the triples of those batches are stored and nothing of the failed batch
\* is, neither a triple nor a term nor an id.
ImportCommitsPerBatch ==
    [][(last'.op = "Import" /\ last'.err \notin {Ok, ErrPanic})
          => LET done == Committed(last'.seq, last'.k * last'.batchSize)
             IN  /\ last'.n = last'.k * last'.batchSize
                 /\ forEach(db').err = Ok
                 /\ Range(forEach(db').out) = Range(forEach(db).out) \cup done
                 /\ DOMAIN db'.iterms = DOMAIN db.iterms \cup Encoded(TermsOf(done))
                 /\ last'.k = 0 => db' = db]_vars

\* The second batch of an Import has failed after the first was committed,
\* and a term of the triples decoded has no id.
ImportCommitsPerBatchWitness ==
    /\ last.op = "Import" /\ last.err \notin {Ok, ErrPanic}
    /\ last.k = 1 /\ last.n = last.batchSize /\ Len(last.seq) > last.n
    /\ Range(forEach(db).out) = Committed(last.seq, last.n)
    /\ \E t \in TermsOf(Range(last.seq)) : encode(t) \notin DOMAIN db.iterms

\* C28: Close followed by Open of the same file gives a store on which
\* forEach returns exactly the triples committed and not deleted, and whose
\* sequence continues above every id assigned before: the next id is
\* greater than the sequence of the closed store and than every id in use.
PersistsAcrossReopen ==
    last.op = "Reopen" =>
        /\ forEach(db).err = Ok
        /\ Range(forEach(db).out) = stored
        /\ Len(forEach(db).out) = Cardinality(stored)
        /\ NextSequence(Begin(db, 0)).n = last.seq + 1
        /\ \A k \in DOMAIN db.terms : btou32(k) < NextSequence(Begin(db, 0)).n

\* A store with two triples, and with ids of collected terms behind it, has
\* been closed and opened again.
PersistsAcrossReopenWitness ==
    /\ last.op = "Reopen" /\ Cardinality(stored) = 2
    /\ last.seq > Cardinality(DOMAIN db.terms)

(***************************************************************************)
(* The structure of what DB.Dump writes.                                   *)
(***************************************************************************)
\* A triple as Dump writes its terms: subject and predicate without the
\* base, "a " for rdf:type, the object as dumpObject writes it.
Written(tr) ==
    [s |-> TrimPrefix(tr.Subj.value, Base),
     p |-> IF tr.Pred = RDFtype THEN <<97, 32>> ELSE TrimPrefix(tr.Pred.value, Base),
     o |-> dumpObject(tr.Obj)]

\* What stands for a string of the output that cannot follow the one before.
BadStatement == [s |-> <<>>, p |-> <<>>, o |-> <<>>]

\* The triples of the statements of out from the n-th string on, read as
\* Turtle: after " .\n" a subject begins a statement, after " ;\n\t" a
\* predicate follows for the same subject, after ", " an object for the
\* same predicate.  mode is what is expected next; BadStatement stands for
\* a string that cannot follow.
RECURSIVE ReadStatements(_, _, _, _, _)
ReadStatements(out, n, mode, s, p) ==
    LET at(k) == IF n + k <= Len(out) THEN out[n + k] ELSE <<>>
    IN  CASE mode = "directive" ->
               IF at(0) = <<32, 46, 10>>
               THEN (IF n = Len(out) THEN <<>>
                     ELSE IF at(1) = <<60>> /\ at(3) = <<62, 32>>
                     THEN ReadStatements(out, n + 4, "pred", at(2), p)
                     ELSE <<BadStatement>>)
               ELSE <<BadStatement>>
          [] mode = "end" ->
               IF at(0) = <<32, 46, 10>>
               THEN (IF n = Len(out) THEN <<>>
                     ELSE IF at(1) = <<60>> /\ at(3) = <<62, 32>>
                     THEN ReadStatements(out, n + 4, "pred", at(2), p)
                     ELSE <<BadStatement>>)
               ELSE IF at(0) = <<32, 59, 10, 9>> THEN ReadStatements(out, n + 1, "pred", s, p)
               ELSE IF at(0) = <<44, 32>> THEN ReadStatements(out, n + 1, "obj", s, p)
               ELSE <<BadStatement>>
          [] mode = "pred" ->
               IF at(0) = <<97, 32>> THEN ReadStatements(out, n + 1, "obj", s, at(0))
               ELSE IF at(0) = <<60>> /\ at(2) = <<62, 32>>
               THEN ReadStatements(out, n + 3, "obj", s, at(1))
               ELSE <<BadStatement>>
          [] mode = "obj" ->
               IF at(0) = <<60>> /\ at(2) = <<62>>
               THEN <<[s |-> s, p |-> p, o |-> <<at(0), at(1), at(2)>>]>>
                    \o ReadStatements(out, n + 3, "end", s, p)
               ELSE IF at(0) # <<>> /\ at(0)[1] = 34
               THEN <<[s |-> s, p |-> p, o |-> <<at(0)>>]>>
                    \o ReadStatements(out, n + 1, "end", s, p)
               ELSE <<BadStatement>>

\* C29: Dump writes "@base <", the base and ">", then for every key of SPO
\* " .\n" and the subject when the subject changes and " ;\n\t" otherwise:
\* read as Turtle the output is the directive and one statement for each
\* distinct stored subject, each ended by " .\n", and the statements state
\* exactly the stored triples, once each.
DumpStructure ==
    last.op = "Dump" =>
        /\ last.err = Ok
        /\ SubSeq(last.out, 1, 3) = << <<64, 98, 97, 115, 101, 32, 60>>, Base, <<62>> >>
        /\ last.out[Len(last.out)] = <<32, 46, 10>>
        /\ LET read == ReadStatements(last.out, 4, "directive", <<>>, <<>>)
           IN  /\ Range(read) = {Written(tr) : tr \in stored}
               /\ Len(read) = Cardinality(stored)
        /\ Cardinality({n \in 1..(Len(last.out) - 1) : last.out[n] = <<32, 46, 10>>})
               = Cardinality({tr.Subj : tr \in stored})

\* Dump has written one statement with two predicates for a subject.
DumpStructureWitness ==
    /\ last.op = "Dump" /\ last.err = Ok /\ Cardinality(stored) = 2
    /\ \E n \in 1..Len(last.out) : last.out[n] = <<32, 59, 10, 9>>

\* C30: a forEach whose callback returns an error for a stored triple
\* returns that error and has invoked the callback for the triples of the
\* scan up to that one and for no later triple; when the callback returns
\* no error the scan is complete.
ForEachStopsAtError ==
    last.op = "forEachFn" =>
        LET scan == forEach(db).out
            hit  == {n \in 1..Len(scan) : scan[n] = last.tr}
        IN  IF hit = {} THEN last.err = Ok /\ last.out = scan
            ELSE /\ last.err = ErrCallback
                 /\ last.out = SubSeq(scan, 1, Min(hit))

\* The callback has returned its error for the first of two stored triples
\* with different keys.
ForEachStopsAtErrorWitness ==
    /\ last.op = "forEachFn" /\ last.err = ErrCallback
    /\ Len(last.out) = 1 /\ Len(forEach(db).out) = 2
    /\ Cardinality(DOMAIN db.spo) = 2

(***************************************************************************)
(* The cursor loops that seek to the predecessor of an id.                 *)
(***************************************************************************)
\* The cursor loop of DB.Describe without its body: from position pos on,
\* the keys at which bytes.Compare(k[:4], bs) is 0, up to the first key at
\* which it is 1.
RECURSIVE seekLoop(_, _, _)
seekLoop(keys, pos, bs) ==
    IF pos > Len(keys) THEN <<>>
    ELSE LET c == bytesCompare(SubSeq(keys[pos], 1, 4), bs)
         IN  IF c = 0 THEN <<keys[pos]>> \o seekLoop(keys, pos + 1, bs)
             ELSE IF c = 1 THEN <<>>
             ELSE seekLoop(keys, pos + 1, bs)

\* Seek to the id followed by four zero bytes: whether the key found begins
\* with the id.
SeekDirect(keys, id) ==
    LET pos == CursorSeek(keys, u32tob(id) \o <<0, 0, 0, 0>>)
    IN  pos <= Len(keys) /\ SubSeq(keys[pos], 1, 4) = u32tob(id)

\* C31: for every id assigned so far and every index, the loop that seeks
\* to the 4-byte key id-1 and advances visits exactly the keys whose first
\* four bytes are the id, in ascending order of the second id, and
\* notInIndex answers as a seek to the id followed by four zero bytes does.
PrefixSeekByPredecessor ==
    \A b \in IndexBuckets, id \in 1..db.seq :
        LET keys == SortedKeys(DOMAIN db[b])
            scan == seekLoop(keys, CursorSeek(keys, u32tobPred(id)), u32tob(id))
        IN  /\ Range(scan) = {k \in DOMAIN db[b] : SubSeq(k, 1, 4) = u32tob(id)}
            /\ \A i, j \in 1..Len(scan) :
                  i < j => btou32(SubSeq(scan[i], 5, 8)) < btou32(SubSeq(scan[j], 5, 8))
            /\ notInIndex(Begin(db, 0), id, b) = ~SeekDirect(keys, id)

\* The seek to the predecessor of an id has found a key of the predecessor
\* and the loop has advanced to the key of the id that follows it.
PrefixSeekByPredecessorWitness ==
    \E id \in 2..db.seq :
        LET keys == SortedKeys(DOMAIN db.spo)
            pos  == CursorSeek(keys, u32tobPred(id))
        IN  /\ pos <= Len(keys) /\ SubSeq(keys[pos], 1, 4) = u32tob(id - 1)
            /\ Len(seekLoop(keys, pos, u32tob(id))) = 1

\* The transaction of a Delete of the stored triple tr inside removeTriple,
\* after the three index updates and before removeOrphanedTerms.
AfterIndexUpdates(tr) ==
    LET tx == Begin(db, 0)
    IN  removeLoop(tx, indices(getID(tx, tr.Subj).id, getID(tx, tr.Pred).id,
                               getID(tx, tr.Obj).id), 1)

\* C32: inside removeTriple, after the three index updates, an id begins
\* no key of SPO, OSP and POS exactly when it is in no key half and in no
\* bitmap of the three indices; so removeOrphanedTerms removes a term of
\* the triple exactly when no triple still stored uses it.
OrphanCheckExact ==
    \A tr \in stored :
        LET mid == AfterIndexUpdates(tr)
            fin == removeOrphanedTerms(mid.tx, getID(mid.tx, tr.Subj).id,
                                       getID(mid.tx, tr.Pred).id, getID(mid.tx, tr.Obj).id)
        IN  /\ mid.err = Ok
            /\ \A id \in 1..db.seq :
                  (\A b \in IndexBuckets : notInIndex(mid.tx, id, b))
                      <=> id \notin IdsInIndices(mid.tx.kv)
            /\ fin.err = Ok
            /\ \A t \in TermsOf({tr}) :
                  encode(t) \notin DOMAIN fin.tx.kv.iterms <=> t \notin TermsOf(stored \ {tr})

\* A triple is stored whose removal from the indices leaves one of its
\* terms in no index and another one in use as an object only.
OrphanCheckExactWitness ==
    \E tr \in stored :
        LET mid == AfterIndexUpdates(tr)
            ids == {getID(mid.tx, t).id : t \in TermsOf({tr})}
        IN  /\ \E id \in ids : id \notin IdsInIndices(mid.tx.kv)
            /\ \E id \in ids : /\ notInIndex(mid.tx, id, "spo") /\ notInIndex(mid.tx, id, "pos")
                               /\ ~notInIndex(mid.tx, id, "osp")

\* C33: the early exits of the loops over the indices are taken at SPO
\* only: for every triple, when storeTriple has written SPO it finds the
\* triple neither in OSP nor in POS, and when removeTriple has changed SPO
\* it finds the triple in OSP and in POS; every stored triple is in the
\* three indices.
EarlyExitsAtSPOOnly ==
    /\ \A tr \in Triples :
          LET a1  == addTerm(Begin(db, 0), tr.Subj)
              a2  == addTerm(a1.tx, tr.Pred)
              a3  == addTerm(a2.tx, tr.Obj)
              idx == indices(a1.id, a2.id, a3.id)
              s1  == storeInIndex(a3.tx, idx[1])
              s2  == storeInIndex(s1.tx, idx[2])
              s3  == storeInIndex(s2.tx, idx[3])
          IN  (a1.err = Ok /\ a2.err = Ok /\ a3.err = Ok /\ ~s1.done)
                  => ~s2.done /\ ~s3.done
    /\ \A tr \in Triples :
          LET tx  == Begin(db, 0)
              g1  == getID(tx, tr.Subj)
              g2  == getID(tx, tr.Pred)
              g3  == getID(tx, tr.Obj)
              idx == indices(g1.id, g2.id, g3.id)
              r1  == removeFromIndex(tx, idx[1])
              r2  == removeFromIndex(r1.tx, idx[2])
              r3  == removeFromIndex(r2.tx, idx[3])
          IN  (g1.err = Ok /\ g2.err = Ok /\ g3.err = Ok /\ r1.err = Ok)
                  => r2.err = Ok /\ r3.err = Ok
    /\ \A tr \in stored :
          LET tx == Begin(db, 0)
              s  == getID(tx, tr.Subj).id
              p  == getID(tx, tr.Pred).id
              o  == getID(tx, tr.Obj).id
          IN  /\ o \in BitmapAt(db, "spo", s, p)
              /\ p \in BitmapAt(db, "osp", o, s)
              /\ s \in BitmapAt(db, "pos", p, o)

\* An Insert has stored a triple whose three terms had ids, after a Delete
\* had removed a triple from the three indices.
EarlyExitsAtSPOOnlyWitness ==
    /\ last.op = "Insert" /\ last.err = Ok /\ last.wrote
    /\ db.seq > Cardinality(DOMAIN db.terms)
    /\ Cardinality(stored) = 2 /\ Cardinality(TermsOf(stored)) = 2

\* C34: no operation returns one of the errors that stand for a bug:
\* removeTerm is never called on an id without entry in terms, and Has,
\* Describe, forEach and Dump never find an id of an index without entry
\* in terms, so that every read returns nil.
NoBugErrors ==
    /\ last.err \notin {ErrBugTermID, ErrBugRemoveTerm}
    /\ last.op \in {"Has", "Describe", "forEach", "Dump"} => last.err = Ok
    /\ last.op = "forEachFn" => last.err \in {Ok, ErrCallback}

\* Describe has returned two triples after a Delete had called removeTerm.
NoBugErrorsWitness ==
    /\ last.op = "Describe" /\ last.err = Ok /\ Cardinality(last.g) = 2
    /\ db.seq > Cardinality(DOMAIN db.terms)

\* C35: id 0 is never assigned: every id in terms, in iterms, in a key or
\* in a bitmap of an index is between 1 and the greatest id, so the id - 1
\* of the seeks does not wrap around, and the first key of SPO never has
\* the subject id 0 that curSubj of Dump starts with: the first key opens a
\* statement.
IdZeroNeverAssigned ==
    /\ \A k \in DOMAIN db.terms : btou32(k) \in 1..MaxTerms
    /\ \A b \in DOMAIN db.iterms : btou32(db.iterms[b]) \in 1..MaxTerms
    /\ IdsInIndices(db) \subseteq 1..MaxTerms
    /\ \A id \in IdsInIndices(db) : u32tobPred(id) = u32tob(id - 1)
    /\ (last.op = "Dump" /\ stored # {})
           => /\ last.out[4] = <<32, 46, 10>>
              /\ last.out[5] = <<60>>

\* Dump has written a store whose first key of SPO has the subject id 1,
\* the sequence being at its greatest value.
IdZeroNeverAssignedWitness ==
    /\ last.op = "Dump" /\ last.err = Ok
    /\ db.seq = MaxTerms
    /\ \E k \in DOMAIN db.spo : btou32(SubSeq(k, 1, 4)) = 1

\* The pairs of a key of bucket b and a member of its bitmap: their number
\* is the sum of the cardinalities of the bitmaps of b.
BitmapMembers(store, b) ==
    UNION {{<<k, v>> : v \in ReadFrom(store[b][k])} : k \in DOMAIN store[b]}

\* C36: in every committed state the sum of the cardinalities of the
\* bitmaps is the same in SPO, OSP and POS and is the number of stored
\* triples, and the bitmap of SPO at (s, p) has as many members as there
\* are stored objects for that subject and predicate.
BitmapCardinalities ==
    /\ \A b \in IndexBuckets :
          Cardinality(BitmapMembers(db, b)) = Cardinality(stored)
    /\ \A s, p \in URIs :
          LET tx == Begin(db, 0)
              objs == {tr.Obj : tr \in {x \in stored : x.Subj = s /\ x.Pred = p}}
          IN  IF objs = {}
              THEN \/ getID(tx, s).err # Ok \/ getID(tx, p).err # Ok
                   \/ BitmapAt(db, "spo", getID(tx, s).id, getID(tx, p).id) = {}
              ELSE Cardinality(BitmapAt(db, "spo", getID(tx, s).id, getID(tx, p).id))
                       = Cardinality(objs)

\* Two triples with the same subject and predicate are stored, in one
\* bitmap of SPO and under two keys of OSP, and the transaction of a Delete
\* of a triple that is not stored has ended.
BitmapCardinalitiesWitness ==
    /\ Cardinality(stored) = 2 /\ Cardinality(DOMAIN db.spo) = 1
    /\ Cardinality(DOMAIN db.osp) = 2
    /\ last.op = "Delete" /\ last.err = ErrNotFound

\* C37: an Insert of a triple whose three terms are in the dictionary
\* allocates nothing: the sequence, terms and iterms stay as they were; it
\* never returns ErrDBFull, whatever the sequence; and when it returns nil
\* the triple is in the three indices.
InsertOfKnownTerms ==
    [][(last'.op = "Insert" /\ Encoded(TermsOf({last'.tr})) \subseteq DOMAIN db.iterms)
          => /\ last'.err # ErrDBFull
             /\ db'.seq = db.seq
             /\ db'.terms = db.terms
             /\ db'.iterms = db.iterms
             /\ last'.err = Ok
                   => LET tx == Begin(db', 0)
                          s  == getID(tx, last'.tr.Subj).id
                          p  == getID(tx, last'.tr.Pred).id
                          o  == getID(tx, last'.tr.Obj).id
                      IN  /\ o \in BitmapAt(db', "spo", s, p)
                          /\ p \in BitmapAt(db', "osp", o, s)
                          /\ s \in BitmapAt(db', "pos", p, o)]_vars

\* An Insert has stored a triple with the sequence at the greatest id, the
\* ids of its three terms being older than the last id assigned.
InsertOfKnownTermsWitness ==
    /\ last.op = "Insert" /\ last.err = Ok /\ last.wrote
    /\ db.seq = MaxTerms
    /\ \A t \in TermsOf({last.tr}) : getID(Begin(db, 0), t).id < db.seq

\* C38: a term that a stored triple uses before and after an Insert, a
\* Delete or an ImportGraph keeps its id: its entry in iterms and the entry
\* of its id in terms are the same after the call, and the triples stored
\* after the call that use it are in the three indices under that id.
IdStability ==
    [][(last'.op \in {"Insert", "Delete", "ImportGraph"} /\ db' # db)
          => \A t \in TermsOf(stored) \cap TermsOf(stored') :
                /\ encode(t) \in DOMAIN db.iterms /\ encode(t) \in DOMAIN db'.iterms
                /\ db'.iterms[encode(t)] = db.iterms[encode(t)]
                /\ db.iterms[encode(t)] \in DOMAIN db'.terms
                /\ db'.terms[db.iterms[encode(t)]] = encode(t)
                /\ \A tr \in {x \in stored' : t \in TermsOf({x})} :
                      LET id(u) == IF u = t THEN btou32(db.iterms[encode(t)])
                                   ELSE getID(Begin(db', 0), u).id
                      IN  /\ id(tr.Obj) \in BitmapAt(db', "spo", id(tr.Subj), id(tr.Pred))
                          /\ id(tr.Pred) \in BitmapAt(db', "osp", id(tr.Obj), id(tr.Subj))
                          /\ id(tr.Subj) \in BitmapAt(db', "pos", id(tr.Pred), id(tr.Obj))]_vars

\* A Delete has removed a triple and collected one of its terms, and
\* another of its terms is the object of the triple that stays.
IdStabilityWitness ==
    /\ last.op = "Delete" /\ last.err = Ok /\ Cardinality(stored) = 1
    /\ \E t \in TermsOf({last.tr}) : encode(t) \notin DOMAIN db.iterms
    /\ \E tr \in stored : tr.Obj \in TermsOf({last.tr}) /\ tr.Obj # tr.Subj /\ tr.Obj # tr.Pred

\* Insert of the triples of trs one after the other, from the n-th on, the
\* functions of the Inserts applied to one transaction.
RECURSIVE insertEach(_, _, _)
insertEach(tx, trs, n) ==
    IF n > Len(trs) THEN [tx |-> tx, err |-> Ok]
    ELSE LET r == InsertFn(tx, trs[n])
         IN  IF r.err # Ok THEN r ELSE insertEach(r.tx, trs, n + 1)

\* C39: a successful ImportGraph(g) leaves the store with the triples and
\* the dictionary terms that the Inserts of the triples of g, one by one in
\* any order, leave.
ImportGraphRefinesInserts ==
    [][(last'.op = "ImportGraph" /\ last'.err = Ok)
          => \A trs \in Orders(GraphTriples(last'.g)) :
                LET r == insertEach(Begin(db, 0), trs, 1)
                IN  /\ r.err = Ok
                    /\ Range(forEach(db').out) = Range(forEach(r.tx.kv).out)
                    /\ DOMAIN db'.iterms = DOMAIN r.tx.kv.iterms]_vars

\* The same for the triples alone, the dictionary left aside.
ImportGraphTriplesAsInserts ==
    [][(last'.op = "ImportGraph" /\ last'.err = Ok)
          => \A trs \in Orders(GraphTriples(last'.g)) :
                LET r == insertEach(Begin(db, 0), trs, 1)
                IN  /\ r.err = Ok
                    /\ Range(forEach(db').out) = Range(forEach(r.tx.kv).out)]_vars

(***************************************************************************)
(* Termination of the loop of Import.                                      *)
(***************************************************************************)
\* The loop of Import runs on: the goroutine that called Import calls
\* Decode again as long as the last call returned neither io.EOF nor a
\* panic.
\* The streams the loop is followed on: every sequence of at most MaxToks
\* tokens, and the well-formed statements of one triple.
LoopStreams ==
    {in \in Streams : ~in.wf \/ Len(in.toks) <= 4}

InitLoop ==
    /\ db = EmptyDB
    /\ stored = {}
    /\ last \in {[op |-> "NewDecoder", in |-> in, d |-> NewDecoder(in.toks),
                   err |-> Ok, got |-> <<>>] : in \in LoopStreams}
    /\ rd = Idle
    /\ wr = [w \in Writers |-> Idle]
    /\ serial = EmptyDB

SpecDecoderFair == InitLoop /\ [][DecodeNext]_vars /\ WF_vars(DecodeNext)

\* Every call of Decode takes at least one token or returns io.EOF.
DecodeConsumes ==
    [][last'.op = "Decode"
          => \/ Len(last'.d.toks) < Len(last.d.toks)
             \/ last'.err = EOF]_vars

\* C40: Import terminates on every finite input: every call of Decode takes
\* at least one token from the scanner or returns io.EOF, and the loop
\* comes to the call of Decode that returns io.EOF, after which Import
\* returns.
ImportTerminates ==
    /\ DecodeConsumes
    /\ <>(last.op = "Decode" /\ last.err = EOF)

\* The loop of Import ends, with io.EOF or with the panic of Decode.
ImportLoopEnds == <>(last.op = "Decode" /\ last.err \in {EOF, ErrPanic})

====
